---- MODULE Spec2Model ----
(***************************************************************************)
(* Model of the plinian-webhook services: the enrichment webhook           *)
(* (src/app.py) and the outreach / reply webhook                            *)
(* (src/response_detector.py, src/plinian_outreach_llm.py).                 *)
(*                                                                         *)
(* Text is a sequence of tokens.  Text that the code inspects character by  *)
(* character (urls, fit values) is a sequence of one-character tokens;      *)
(* text it only copies or tests for emptiness is a one-token sequence.      *)
(* The empty string is << >>.                                               *)
(***************************************************************************)
EXTENDS Integers, Sequences, FiniteSets, Bags, TLC

VARIABLES firm, contacts, entry, out, fn, arg, res, inflight, served

vars == <<firm, contacts, entry, out, fn, arg, res, inflight, served>>

-----------------------------------------------------------------------------
(* Python values *)

\* Python's None (also JSON null).
None == <<"<None>">>

\* A key that is absent from a dict / JSON object.
Missing == <<"<missing>">>

\* dict.get(key): an absent key reads as None.
Get(d, k) == IF d[k] = Missing THEN None ELSE d[k]

\* dict.get(key, default): only an absent key reads as the default.
GetD(d, k, default) == IF d[k] = Missing THEN default ELSE d[k]

\* Python truthiness of an optional string or list: None, '' and [] are falsy.
Truthy(v) == v # None /\ v # Missing /\ v # << >>

\* A request without a JSON body: request.json is None.
NoBody(d) == ~d.has_body

-----------------------------------------------------------------------------
(* str methods, on sequences of tokens: characters and literals of the code *)

UpperChars == <<"A","B","C","D","E","F","G","H","I","J","K","L","M",
                "N","O","P","Q","R","S","T","U","V","W","X","Y","Z">>

LowerChars == <<"a","b","c","d","e","f","g","h","i","j","k","l","m",
                "n","o","p","q","r","s","t","u","v","w","x","y","z">>

LowerChar(c) ==
    IF \E i \in 1..Len(UpperChars) : UpperChars[i] = c
    THEN LowerChars[CHOOSE i \in 1..Len(UpperChars) : UpperChars[i] = c]
    ELSE c

\* str.lower()
Lower(s) == [i \in 1..Len(s) |-> LowerChar(s[i])]

\* "\n\n" is the two line breaks the code writes between notes.
Whitespace == {" ", "\t", "\n", "\r", "\n\n"}

\* A literal of the code without the whitespace it begins with; the other
\* tokens begin with none.
LStripToken(t) ==
    CASE t = "\n\nSTONERIVER: " -> "STONERIVER: "
      [] t = "\n\nASHTON GRAY: " -> "ASHTON GRAY: "
      [] t = "\n\nWILLOW CREST: " -> "WILLOW CREST: "
      [] t = "\n\nICW: " -> "ICW: "
      [] t = "\n\nHIGHMOUNT: " -> "HIGHMOUNT: "
      [] t = "\n\nCO-INVEST: " -> "CO-INVEST: "
      [] t = "\n\n---\n" -> "---\n"
      [] t = " | " -> "| "
      [] OTHER -> t

\* A literal of the code without the whitespace it ends with; the other
\* tokens end with none.
RStripToken(t) ==
    CASE t = "Best Match: " -> "Best Match:"
      [] t = "\n\nSTONERIVER: " -> "\n\nSTONERIVER:"
      [] t = "\n\nASHTON GRAY: " -> "\n\nASHTON GRAY:"
      [] t = "\n\nWILLOW CREST: " -> "\n\nWILLOW CREST:"
      [] t = "\n\nICW: " -> "\n\nICW:"
      [] t = "\n\nHIGHMOUNT: " -> "\n\nHIGHMOUNT:"
      [] t = "\n\nCO-INVEST: " -> "\n\nCO-INVEST:"
      [] t = "\n\n---\n" -> "\n\n---"
      [] t = "[Outreach " -> "[Outreach"
      [] t = "] " -> "]"
      [] t = "[Response received " -> "[Response received"
      [] t = "]\n" -> "]"
      [] t = " | " -> " |"
      [] t = ": " -> ":"
      [] t = "STONERIVER: " -> "STONERIVER:"
      [] t = "ASHTON GRAY: " -> "ASHTON GRAY:"
      [] t = "WILLOW CREST: " -> "WILLOW CREST:"
      [] t = "ICW: " -> "ICW:"
      [] t = "HIGHMOUNT: " -> "HIGHMOUNT:"
      [] t = "CO-INVEST: " -> "CO-INVEST:"
      [] t = "---\n" -> "---"
      [] t = "| " -> "|"
      [] OTHER -> t

\* str.lstrip(): the whitespace characters the text begins with are removed,
\* those that begin a literal as well.
RECURSIVE LStrip(_)
LStrip(s) ==
    IF s = << >> THEN s
    ELSE IF Head(s) \in Whitespace THEN LStrip(Tail(s))
    ELSE <<LStripToken(Head(s))>> \o Tail(s)

\* str.rstrip()
RECURSIVE RStrip(_)
RStrip(s) ==
    IF s = << >> THEN s
    ELSE IF s[Len(s)] \in Whitespace THEN RStrip(SubSeq(s, 1, Len(s) - 1))
    ELSE SubSeq(s, 1, Len(s) - 1) \o <<RStripToken(s[Len(s)])>>

\* str.strip()
Strip(s) == RStrip(LStrip(s))

\* str.startswith(p)
StartsWith(s, p) == Len(s) >= Len(p) /\ SubSeq(s, 1, Len(p)) = p

\* str.endswith(p)
EndsWith(s, p) == Len(s) >= Len(p) /\ SubSeq(s, Len(s) - Len(p) + 1, Len(s)) = p

\* s[n:]
Drop(s, n) == SubSeq(s, n + 1, Len(s))

\* p in s
Contains(s, p) == \E i \in 0..(Len(s) - Len(p)) : SubSeq(s, i + 1, i + Len(p)) = p

\* s.find(p): index (from 0) of the first occurrence; only used when p in s.
Find(s, p) ==
    CHOOSE i \in 0..(Len(s) - Len(p)) :
        /\ SubSeq(s, i + 1, i + Len(p)) = p
        /\ \A j \in 0..(i - 1) : SubSeq(s, j + 1, j + Len(p)) # p

\* s.rfind(p): index (from 0) of the last occurrence; only used when p in s.
RFind(s, p) ==
    CHOOSE i \in 0..(Len(s) - Len(p)) :
        /\ SubSeq(s, i + 1, i + Len(p)) = p
        /\ \A j \in (i + 1)..(Len(s) - Len(p)) : SubSeq(s, j + 1, j + Len(p)) # p

\* str.replace(p, ''): the occurrences of p are removed in one left-to-right
\* scan; text that the removal joins together is not scanned again.
RECURSIVE RemoveAll(_, _)
RemoveAll(s, p) ==
    IF Len(s) < Len(p) THEN s
    ELSE IF SubSeq(s, 1, Len(p)) = p THEN RemoveAll(Drop(s, Len(p)), p)
    ELSE <<Head(s)>> \o RemoveAll(Tail(s), p)

\* s.split(p)[0]
BeforeFirst(s, p) == IF Contains(s, p) THEN SubSeq(s, 1, Find(s, p)) ELSE s

-----------------------------------------------------------------------------
(* src/app.py: extract_domain *)

cHttps == <<"h","t","t","p","s",":","/","/">>
cHttp  == <<"h","t","t","p",":","/","/">>
cWww   == <<"w","w","w",".">>
cSlash == <<"/">>

extract_domain(website_url) ==
    IF ~Truthy(website_url) THEN None
    ELSE BeforeFirst(
            RemoveAll(RemoveAll(RemoveAll(Lower(website_url), cHttps), cHttp), cWww),
            cSlash)

-----------------------------------------------------------------------------
(* src/app.py: handle_firm_scoring.normalize_fit *)

FitEnum == {"Strong", "Moderate", "Weak", "N/A"}

cStrong      == <<"s","t","r","o","n","g">>
cModerate    == <<"m","o","d","e","r","a","t","e">>
cWeak        == <<"w","e","a","k">>
cFit         == <<" ","f","i","t">>

\* Wrong: compares without lower-casing and without the ' fit' forms, and
\* passes an unrecognized value through.
normalize_fit_passthrough(value) ==
    IF ~Truthy(value) THEN "N/A"
    ELSE IF Strip(value) = cStrong THEN "Strong"
    ELSE IF Strip(value) = cModerate THEN "Moderate"
    ELSE IF Strip(value) = cWeak THEN "Weak"
    ELSE "verbatim"

normalize_fit(value) ==
    IF ~Truthy(value) THEN "N/A"
    ELSE IF Lower(Strip(value)) \in {cStrong, cStrong \o cFit} THEN "Strong"
    ELSE IF Lower(Strip(value)) \in {cModerate, cModerate \o cFit} THEN "Moderate"
    ELSE IF Lower(Strip(value)) \in {cWeak, cWeak \o cFit} THEN "Weak"
    ELSE "N/A"

-----------------------------------------------------------------------------
(* Sized text.  Text that the code measures or cuts to a number of          *)
(* characters is a sequence of tokens of known length (TokLen); a token     *)
(* that a cut went through is followed by the mark of that cut, and the     *)
(* text up to and including it is as long as the limit of the cut.           *)

NotesLimit == 2000
ExcerptLimit == 200
DateLimit == 10
ResearchLimit == 5000

CutMark(limit) ==
    CASE limit = NotesLimit -> "<cut at 2000>"
      [] limit = ExcerptLimit -> "<cut at 200>"
      [] limit = ResearchLimit -> "<cut at 5000>"
      [] OTHER -> "<cut>"

CutMarks == {"<cut at 2000>", "<cut at 200>", "<cut at 5000>"}

MarkLimit(m) ==
    CASE m = "<cut at 2000>" -> NotesLimit
      [] m = "<cut at 200>" -> ExcerptLimit
      [] m = "<cut at 5000>" -> ResearchLimit

\* The tokens of one character.
Chars ==
    {UpperChars[i] : i \in 1..Len(UpperChars)} \cup {LowerChars[i] : i \in 1..Len(LowerChars)}
    \cup {"0", "1", "2", "3", "4", "5", "6", "7", "8", "9"}
    \cup {" ", "\t", "\n", "\r", ":", "/", ".", ",", "-", "'"}

\* The number of characters of a token: the literals of the code and the
\* names of the payloads by their length, and the texts of the payloads by
\* the length their name states.
TokLen(t) ==
    CASE t \in Chars -> 1
      [] t = "Best Match: " -> 12
      [] t = "\n\nSTONERIVER: " -> 14
      [] t = "\n\nASHTON GRAY: " -> 15
      [] t = "\n\nWILLOW CREST: " -> 16
      [] t = "\n\nICW: " -> 7
      [] t = "\n\nHIGHMOUNT: " -> 13
      [] t = "\n\nCO-INVEST: " -> 13
      [] t = "\n\n---\n" -> 6
      [] t = "TBD" -> 3
      [] t = "None" -> 4
      [] t = "\n\n" -> 2
      [] t = "[Outreach " -> 10
      [] t = "Plinian Strategies - Introduction" -> 33
      [] t = "Fallback template used due to LLM error" -> 39
      [] t = "<fallback body, before the firm name>" -> 162
      [] t = "<fallback body, after the firm name>" -> 403
      [] t = "Unknown Firm" -> 12
      [] t = "] " -> 2
      [] t = "[Response received " -> 19
      [] t = "]\n" -> 2
      [] t = "..." -> 3
      [] t = "<date>" -> 10
      [] t = "<text 40>" -> 40
      [] t = "<text 150>" -> 150
      [] t = "<text 300>" -> 300
      [] t = "<text 900>" -> 900
      [] t = "<text 2500>" -> 2500
      [] t = "<text 6000>" -> 6000
      [] t = "StoneRiver" -> 10
      [] t = "ICW" -> 3
      [] t = "General" -> 7
      [] t = "Acme Capital" -> 12
      [] t = "Boston" -> 6
      [] t = "Sure:" -> 5
      [] t = "Bye" -> 3
      [] t = "json" -> 4
      [] t = "<fence>" -> 3
      [] t = " | " -> 3
      [] t = ": " -> 2
      [] t = "Qualification Notes" -> 19
      [] t = "Firm Overview" -> 13
      [] t = "API error" -> 9
      [] t = "JSON parsing error" -> 18
      [] t = "AttributeError" -> 14
      [] t = "lp@acme.com" -> 11
      [] t = "STONERIVER: " -> 12
      [] t = "ASHTON GRAY: " -> 13
      [] t = "WILLOW CREST: " -> 14
      [] t = "ICW: " -> 5
      [] t = "HIGHMOUNT: " -> 11
      [] t = "CO-INVEST: " -> 11
      [] t = "---\n" -> 4
      [] t = "| " -> 2
      [] t = "Best Match:" -> 11
      [] t = "\n\nSTONERIVER:" -> 13
      [] t = "\n\nASHTON GRAY:" -> 14
      [] t = "\n\nWILLOW CREST:" -> 15
      [] t = "\n\nICW:" -> 6
      [] t = "\n\nHIGHMOUNT:" -> 12
      [] t = "\n\nCO-INVEST:" -> 12
      [] t = "\n\n---" -> 5
      [] t = "[Outreach" -> 9
      [] t = "]" -> 1
      [] t = "[Response received" -> 18
      [] t = " |" -> 2
      [] t = "STONERIVER:" -> 11
      [] t = "ASHTON GRAY:" -> 12
      [] t = "WILLOW CREST:" -> 13
      [] t = "ICW:" -> 4
      [] t = "HIGHMOUNT:" -> 10
      [] t = "CO-INVEST:" -> 10
      [] t = "---" -> 3
      [] t = "|" -> 1

RECURSIVE TextLenFrom(_, _)
TextLenFrom(s, acc) ==
    IF s = << >> THEN acc
    ELSE IF Len(s) >= 2 /\ s[2] \in CutMarks
    THEN TextLenFrom(Drop(s, 2), MarkLimit(s[2]))
    ELSE TextLenFrom(Tail(s), acc + TokLen(Head(s)))

\* len(s)
TextLen(s) == TextLenFrom(s, 0)

RECURSIVE CutFrom(_, _, _)
CutFrom(s, acc, limit) ==
    IF s = << >> \/ acc >= limit THEN << >>
    ELSE IF Len(s) >= 2 /\ s[2] \in CutMarks
    THEN IF MarkLimit(s[2]) <= limit
         THEN <<s[1], s[2]>> \o CutFrom(Drop(s, 2), MarkLimit(s[2]), limit)
         ELSE <<s[1], CutMark(limit)>>
    ELSE IF acc + TokLen(Head(s)) <= limit
    THEN <<Head(s)>> \o CutFrom(Tail(s), acc + TokLen(Head(s)), limit)
    ELSE <<Head(s), CutMark(limit)>>

\* s[:limit]
Cut(s, limit) == CutFrom(s, 0, limit)

-----------------------------------------------------------------------------
(* The record store (Notion).  One Firm page F1, the Contact pages created  *)
(* so far, and one Outreach Log entry.                                       *)

F1 == <<"firm-1">>
UnknownId == <<"no-such-page">>

Offerings == <<"StoneRiver", "Ashton Gray", "Willow Crest", "ICW", "Highmount", "Co-Invest">>

\* The Firm property holding the fit of each offering.
FitProp == <<"StoneRiver Fit", "Ashton Gray Fit", "Willow Crest Fit",
             "ICW Fit", "Highmount Fit", "Co-Invests Fit">>

\* The keys of each offering in the LLM's scoring object.
FitField == <<"stoneriver_fit", "ashtongray_fit", "willowcrest_fit",
              "icw_fit", "highmount_fit", "coinvest_fit">>

RatField == <<"stoneriver_rationale", "ashtongray_rationale", "willowcrest_rationale",
              "icw_rationale", "highmount_rationale", "coinvest_rationale">>

\* The heading of each offering in the qualification notes.
RatHeading == <<"\n\nSTONERIVER: ", "\n\nASHTON GRAY: ", "\n\nWILLOW CREST: ",
                "\n\nICW: ", "\n\nHIGHMOUNT: ", "\n\nCO-INVEST: ">>

FitProps == {FitProp[i] : i \in 1..Len(FitProp)}

\* The properties of a Firm page (the database schema).
FirmSchema ==
    {"Firm Name", "Website", "Research Status", "Restart Enrichment",
     "LinkedIn Company URL", "Firm Overview", "Location / Headquarters Location",
     "Contacts Identified", "Qualification Notes", "Best Matches",
     "Relationship Stage", "Last Contact Date", "Outreach Draft URL",
     "Latest Outreach Subject", "Latest Outreach Client", "Last Outreach Run"}
    \cup FitProps

\* A Firm page as the CRM creates it.
NewFirmPage(name, website, restart) ==
    [p \in FirmSchema |->
        CASE p = "Firm Name" -> name
          [] p = "Website" -> website
          [] p = "Research Status" -> "New"
          [] p = "Restart Enrichment" -> restart
          [] p = "Contacts Identified" -> 0
          [] p \in FitProps -> ""
          [] p = "Best Matches" -> {}
          [] p = "Relationship Stage" -> ""
          [] p = "LinkedIn Company URL" -> None
          [] p = "Outreach Draft URL" -> None
          [] p = "Last Contact Date" -> None
          [] p = "Last Outreach Run" -> None
          [] OTHER -> << >>]

\* A partial write: only the supplied properties change.
Patch(page, properties) ==
    [p \in DOMAIN page |-> IF p \in DOMAIN properties THEN properties[p] ELSE page[p]]

\* The outcomes of one call to the record store.
StoreOutcomes == {"ok", "error", "raise"}

\* A call on a page that does not exist cannot succeed.
Effective(oc, page_id) == IF oc = "ok" /\ page_id # F1 THEN "error" ELSE oc

\* One external call in the trace of a handler invocation.
Call(svc, op, a, r) == [svc |-> svc, op |-> op, args |-> a, result |-> r]

-----------------------------------------------------------------------------
(* src/app.py: helpers *)

\* get_notion_page: the page, or none on a non-200 answer.
get_notion_page(page, page_id, oc) ==
    [found |-> Effective(oc, page_id) = "ok", page |-> page]

\* update_notion_page: the Firm page after the PATCH.
update_notion_page(page, page_id, properties, oc) ==
    IF Effective(oc, page_id) = "ok" THEN Patch(page, properties) ELSE page

RelayOutcomes == {"unconfigured", "raise", "200", "201", "202", "302", "500"}

\* send_to_clay_firm_table / send_to_clay_person_table: the boolean returned.
send_to_clay(oc) == oc \in {"200", "201", "202"}

\* verify_webhook_signature
verify_webhook_signature(secret_set, signature_matches) ==
    IF ~secret_set THEN TRUE ELSE signature_matches

-----------------------------------------------------------------------------
(* The outcome of a handler invocation: the response and the trace of its   *)
(* external calls.  kind "json" is a structured outcome object returned by  *)
(* the handler; kind "exception" is an exception that left the handler      *)
(* uncaught, so that the framework's error page is the only output.          *)

Json(h, req, code, body, calls) ==
    [handler |-> h, req |-> req, kind |-> "json", code |-> code, body |-> body,
     calls |-> calls]

Uncaught(h, req, calls) ==
    [handler |-> h, req |-> req, kind |-> "exception", code |-> 500,
     body |-> [error |-> "Internal Server Error"], calls |-> calls]

\* The calls of a trace made to one service.
CallsTo(o, svc) == SelectSeq(o.calls, LAMBDA c : c.svc = svc)

\* The record-store writes (update or create) of a trace.
Writes(o) == SelectSeq(o.calls, LAMBDA c : c.svc = "store" /\ c.op \in {"update", "create"})

-----------------------------------------------------------------------------
(* src/app.py: handle_notion_new_firm *)

\* Lines 152-178: the fields read from the two payload formats.
new_firm_fields(p) ==
    IF p.format = "nested"
    THEN [page_id   |-> Get(p, "id"),
          firm_name |-> IF Truthy(p.title) THEN p.title ELSE << >>,
          website   |-> GetD(p, "url", << >>),
          is_restart |-> p.checkbox]
    ELSE [page_id   |-> Get(p, "id"),
          firm_name |-> Get(p, "title"),
          website   |-> Get(p, "url"),
          is_restart |-> FALSE]

\* Lines 184-192: website and name recovered from the stored page.
new_firm_recover(f, got) ==
    IF ~got.found THEN f
    ELSE [f EXCEPT !.website = got.page["Website"],
                   !.firm_name = IF ~Truthy(f.firm_name) /\ Truthy(got.page["Firm Name"])
                                 THEN got.page["Firm Name"] ELSE f.firm_name]

\* Wrong: clears the restart flag whether or not the event was a restart,
\* and leaves the status alone.
new_firm_updates_no_status(is_restart) ==
    "Restart Enrichment" :> FALSE

\* Lines 211-215: the properties written after a successful dispatch.
new_firm_updates(is_restart) ==
    IF is_restart
    THEN ("Research Status" :> "Researching") @@ ("Restart Enrichment" :> FALSE)
    ELSE ("Research Status" :> "Researching")

\* Lines 200-205.
clay_data(f, domain) ==
    [page_id |-> f.page_id, firm_name |-> f.firm_name, domain |-> domain,
     website |-> f.website]

\* Wrong: writes the record before looking at the result of the dispatch.
new_firm_dispatch_write_first(page, req, f, domain, pre, relayOc, updOc) ==
    LET data == clay_data(f, domain)
        sent == pre \o <<Call("relay", "firm", data, relayOc)>>
        updates == new_firm_updates(f.is_restart)
        done == sent \o <<Call("store", "update", updates, Effective(updOc, f.page_id))>>
    IN  [firm |-> update_notion_page(page, f.page_id, updates, updOc),
         out  |-> Json("new_firm", req, 200,
                       [status |-> "sent_to_clay", firm |-> f.firm_name,
                        restart |-> f.is_restart], done)]

\* Lines 207-220: dispatch, then the record update on success.
new_firm_dispatch(page, req, f, domain, pre, relayOc, updOc) ==
    LET data == clay_data(f, domain)
        sent == pre \o <<Call("relay", "firm", data, relayOc)>>
        updates == new_firm_updates(f.is_restart)
        done == sent \o <<Call("store", "update", updates, Effective(updOc, f.page_id))>>
    IN  IF relayOc = "raise" THEN [firm |-> page, out |-> Uncaught("new_firm", req, sent)]
        ELSE IF send_to_clay(relayOc)
        THEN IF updOc = "raise"
             THEN [firm |-> page, out |-> Uncaught("new_firm", req, done)]
             ELSE [firm |-> update_notion_page(page, f.page_id, updates, updOc),
                   out  |-> Json("new_firm", req, 200,
                                 [status |-> "sent_to_clay", firm |-> f.firm_name,
                                  restart |-> f.is_restart], done)]
        ELSE [firm |-> page,
              out  |-> Json("new_firm", req, 500, [error |-> "Failed to send to Clay"], sent)]

\* Wrong: dispatches whether or not the website gave a domain.
new_firm_resolve_unchecked(page, req, f, pre, relayOc, updOc) ==
    new_firm_dispatch(page, req, f, extract_domain(f.website), pre, relayOc, updOc)

\* Wrong: checks the restart flag, and dispatches only for a restart event.
new_firm_resolve_only_restart(page, req, f, pre, relayOc, updOc) ==
    LET domain == extract_domain(f.website)
    IN  IF ~Truthy(domain)
        THEN [firm |-> page,
              out  |-> Json("new_firm", req, 400,
                            [error |-> "No website/domain provided", firm |-> f.firm_name],
                            pre)]
        ELSE IF ~f.is_restart
        THEN [firm |-> page,
              out  |-> Json("new_firm", req, 200, [status |-> "skipped"], pre)]
        ELSE new_firm_dispatch(page, req, f, domain, pre, relayOc, updOc)

\* Lines 194-198: the domain, or the rejection.
new_firm_resolve(page, req, f, pre, relayOc, updOc) ==
    LET domain == extract_domain(f.website)
    IN  IF ~Truthy(domain)
        THEN [firm |-> page,
              out  |-> Json("new_firm", req, 400,
                            [error |-> "No website/domain provided", firm |-> f.firm_name],
                            pre)]
        ELSE new_firm_dispatch(page, req, f, domain, pre, relayOc, updOc)

\* Lines 183-192: the fields after the stored page was read for an event
\* without a website, and the call made for it.
new_firm_locals(page, f, getOc) ==
    IF Truthy(f.website) THEN [raised |-> FALSE, f |-> f, pre |-> << >>]
    ELSE [raised |-> getOc = "raise",
          f |-> new_firm_recover(f, get_notion_page(page, f.page_id, getOc)),
          pre |-> <<Call("store", "get", f.page_id, Effective(getOc, f.page_id))>>]

handle_notion_new_firm(page, req, relayOc, getOc, updOc) ==
    LET p == req.payload IN
    IF ~verify_webhook_signature(req.secret_set, req.signature_matches)
    THEN [firm |-> page, out |-> Json("new_firm", req, 401, [error |-> "Invalid signature"], << >>)]
    ELSE IF NoBody(p)
    THEN [firm |-> page, out |-> Uncaught("new_firm", req, << >>)]
    ELSE
    LET f == new_firm_fields(p) IN
    IF ~Truthy(f.page_id)
    THEN [firm |-> page, out |-> Json("new_firm", req, 400, [error |-> "Missing page_id"], << >>)]
    ELSE
    LET l == new_firm_locals(page, f, getOc) IN
    IF l.raised THEN [firm |-> page, out |-> Uncaught("new_firm", req, l.pre)]
    ELSE new_firm_resolve(page, req, l.f, l.pre, relayOc, updOc)

-----------------------------------------------------------------------------
(* Contact pages (the Prospects database) *)

ContactId(i) == <<"contact">> \o [k \in 1..i |-> "+"]

\* create_notion_page(PROSPECTS_DB_ID, properties): the page created.
NewContactPage(properties) ==
    [p \in {"Name", "Company", "Title/Role", "Status", "Email", "LinkedIn URL"} |->
        IF p \in DOMAIN properties THEN properties[p]
        ELSE IF p \in {"Email", "LinkedIn URL"} THEN None
        ELSE IF p = "Status" THEN ""
        ELSE << >>]

\* The record store refuses a text property whose content is null.
ValidContact(properties) ==
    \A p \in DOMAIN properties \cap {"Name", "Company", "Title/Role"} : properties[p] # None

\* The result of one create call.
CreateResult(properties, oc) ==
    IF oc = "ok" /\ ~ValidContact(properties) THEN "error" ELSE oc

\* create_notion_page: the Contact pages after the POST.
create_notion_page(cs, properties, oc) ==
    IF CreateResult(properties, oc) = "ok" THEN Append(cs, NewContactPage(properties)) ELSE cs

\* The result of an update call on a Contact page.
ContactUpdateResult(cs, page_id, oc) ==
    IF oc = "ok" /\ ~(\E i \in 1..Len(cs) : ContactId(i) = page_id) THEN "error" ELSE oc

\* update_notion_page on a Contact page.
update_contact_page(cs, page_id, properties, oc) ==
    IF ContactUpdateResult(cs, page_id, oc) = "ok"
    THEN [i \in 1..Len(cs) |-> IF ContactId(i) = page_id THEN Patch(cs[i], properties) ELSE cs[i]]
    ELSE cs

-----------------------------------------------------------------------------
(* src/app.py: handle_enrich_person *)

handle_enrich_person(cs, req, relayOc, updOc) ==
    LET d == req.payload IN
    IF NoBody(d) THEN [contacts |-> cs, out |-> Uncaught("enrich_person", req, << >>)]
    ELSE IF ~Truthy(Get(d, "page_id")) \/ ~Truthy(Get(d, "full_name"))
    THEN [contacts |-> cs,
          out |-> Json("enrich_person", req, 400, [error |-> "Missing page_id or full_name"], << >>)]
    ELSE
    LET sent == <<Call("relay", "person", d, relayOc)>>
        updates == "Status" :> "Enriching"
        done == sent \o <<Call("store", "update", updates,
                               ContactUpdateResult(cs, d.page_id, updOc))>>
    IN  IF relayOc = "raise" THEN [contacts |-> cs, out |-> Uncaught("enrich_person", req, sent)]
        ELSE IF send_to_clay(relayOc)
        THEN IF updOc = "raise"
             THEN [contacts |-> cs, out |-> Uncaught("enrich_person", req, done)]
             ELSE [contacts |-> update_contact_page(cs, d.page_id, updates, updOc),
                   out |-> Json("enrich_person", req, 200,
                                [status |-> "sent_to_clay", person |-> d.full_name], done)]
        ELSE [contacts |-> cs,
              out |-> Json("enrich_person", req, 500, [error |-> "Failed to send to Clay"], sent)]

-----------------------------------------------------------------------------
(* src/app.py: handle_clay_person_enriched *)

\* Wrong: every Contact of a person callback is Qualified, with whatever
\* the callback gave as its email.
person_properties_always_qualified(d) ==
    ("Name" :> GetD(d, "full_name", <<"Unknown">>))
    @@ ("Company" :> GetD(d, "company_name", << >>))
    @@ ("Status" :> "Qualified")
    @@ (IF Get(d, "email") # None THEN "Email" :> d.email ELSE << >>)

\* Lines 297-310: the properties of the Contact to create.
person_properties(d) ==
    ("Name" :> GetD(d, "full_name", <<"Unknown">>))
    @@ ("Company" :> GetD(d, "company_name", << >>))
    @@ ("Status" :> IF Truthy(Get(d, "email")) THEN "Qualified" ELSE "New")
    @@ (IF Truthy(Get(d, "email")) THEN "Email" :> d.email ELSE << >>)
    @@ (IF Truthy(Get(d, "linkedin_url")) THEN "LinkedIn URL" :> d.linkedin_url ELSE << >>)
    @@ (IF Truthy(Get(d, "title")) THEN "Title/Role" :> d.title ELSE << >>)

handle_clay_person_enriched(cs, req, createOc) ==
    LET d == req.payload IN
    IF NoBody(d) THEN [contacts |-> cs, out |-> Uncaught("person_enriched", req, << >>)]
    ELSE
    LET properties == person_properties(d)
        done == <<Call("store", "create", properties, CreateResult(properties, createOc))>>
    IN  IF createOc = "raise"
        THEN [contacts |-> cs, out |-> Uncaught("person_enriched", req, done)]
        ELSE IF CreateResult(properties, createOc) = "ok"
        THEN [contacts |-> create_notion_page(cs, properties, createOc),
              out |-> Json("person_enriched", req, 200,
                           [status |-> "success", prospect_created |-> Get(d, "full_name"),
                            email_found |-> Truthy(Get(d, "email"))], done)]
        ELSE [contacts |-> cs,
              out |-> Json("person_enriched", req, 500,
                           [error |-> "Failed to create prospect"], done)]

-----------------------------------------------------------------------------
(* src/app.py: handle_clay_firm_enriched *)

\* Wrong: the callback marks the firm with a status of its own.
firm_updates_enriched_status(d) ==
    (IF Truthy(GetD(d, "people", << >>))
     THEN "Contacts Identified" :> Len(d.people) ELSE << >>)
    @@ ("Research Status" :> "Enriched")

\* Lines 257-270: the properties written to the Firm.
firm_updates(d) ==
    (IF Truthy(Get(d, "company_linkedin_url"))
     THEN "LinkedIn Company URL" :> d.company_linkedin_url ELSE << >>)
    @@ (IF Truthy(Get(d, "description"))
        THEN "Firm Overview" :> Cut(d.description, NotesLimit) ELSE << >>)
    @@ (IF Truthy(Get(d, "headquarters"))
        THEN "Location / Headquarters Location" :> d.headquarters ELSE << >>)
    @@ (IF Truthy(GetD(d, "people", << >>))
        THEN "Contacts Identified" :> Len(d.people) ELSE << >>)
    @@ ("Research Status" :> "Qualified")

\* The entries that a people list of a firm callback can hold, by name.
Person(token) ==
    CASE token = "ann"  -> [name |-> <<"Ann">>, title |-> <<"CIO">>, linkedin_url |-> <<"in/ann">>]
      [] token = "bob"  -> [name |-> <<"Bob">>, title |-> Missing, linkedin_url |-> Missing]
      [] token = "anon" -> [name |-> Missing, title |-> <<"Analyst">>, linkedin_url |-> None]
      [] token = "null" -> [name |-> None, title |-> << >>, linkedin_url |-> << >>]

\* Lines 274-281: the properties of the Contact created for one person.
prospect_properties(d, person) ==
    ("Name" :> GetD(person, "name", <<"Unknown">>))
    @@ ("Company" :> GetD(d, "firm_name", << >>))
    @@ ("Title/Role" :> GetD(person, "title", << >>))
    @@ ("Status" :> "New")
    @@ (IF Truthy(Get(person, "linkedin_url"))
        THEN "LinkedIn URL" :> person.linkedin_url ELSE << >>)

\* Lines 273-284: one create per person, in order; a call that raises ends
\* the loop and the handler.
RECURSIVE create_prospects(_, _, _, _, _)
create_prospects(cs, calls, d, people, ocs) ==
    IF people = << >> THEN [contacts |-> cs, calls |-> calls, raised |-> FALSE]
    ELSE
    LET properties == prospect_properties(d, Person(Head(people)))
        made == calls \o <<Call("store", "create", properties,
                                CreateResult(properties, Head(ocs)))>>
    IN  IF Head(ocs) = "raise" THEN [contacts |-> cs, calls |-> made, raised |-> TRUE]
        ELSE create_prospects(create_notion_page(cs, properties, Head(ocs)), made, d,
                              Tail(people), Tail(ocs))

handle_clay_firm_enriched(page, cs, req, updOc, createOcs) ==
    LET d == req.payload IN
    IF NoBody(d)
    THEN [firm |-> page, contacts |-> cs, out |-> Uncaught("firm_enriched", req, << >>)]
    ELSE IF ~Truthy(Get(d, "notion_page_id"))
    THEN [firm |-> page, contacts |-> cs,
          out |-> Json("firm_enriched", req, 400, [error |-> "Missing notion_page_id"], << >>)]
    ELSE
    LET updates == firm_updates(d)
        people == GetD(d, "people", << >>)
        upd == <<Call("store", "update", updates, Effective(updOc, d.notion_page_id))>>
        page2 == update_notion_page(page, d.notion_page_id, updates, updOc)
    IN  IF updOc = "raise"
        THEN [firm |-> page, contacts |-> cs, out |-> Uncaught("firm_enriched", req, upd)]
        ELSE IF people = None
        THEN [firm |-> page2, contacts |-> cs, out |-> Uncaught("firm_enriched", req, upd)]
        ELSE
        LET r == create_prospects(cs, upd, d, people, createOcs) IN
        IF r.raised
        THEN [firm |-> page2, contacts |-> r.contacts,
              out |-> Uncaught("firm_enriched", req, r.calls)]
        ELSE [firm |-> page2, contacts |-> r.contacts,
              out |-> Json("firm_enriched", req, 200,
                           [status |-> "success", firm_updated |-> d.notion_page_id,
                            prospects_created |-> Len(people)], r.calls)]

-----------------------------------------------------------------------------
(* The LLM's answers.  An answer is text: a sequence of tokens, where a     *)
(* JSON value is one token, the code fence is one token and a line break     *)
(* is one token.                                                             *)

\* The code fence marker (three backquotes).
Fence == "<fence>"

\* The JSON values that stand for an object (a dict after json.loads).
ObjectTokens == {"{valid}", "{odd}", "{nulls}", "{empty}", "{blank}"}

\* The JSON values that are well formed but no object.
NonObjectTokens == {"[]", "null"}

JsonTokens == ObjectTokens \cup NonObjectTokens

\* The texts an answer can be, around one JSON value.
AnswerShapes == {"bare", "padded", "fenced", "fenced plain", "prose", "prose fenced",
                 "fence only", "empty"}

Answer(shape, tok) ==
    CASE shape = "bare" -> <<tok>>
      [] shape = "padded" -> <<"\n", tok, " ">>
      [] shape = "fenced" -> <<Fence, "json", "\n", tok, "\n", Fence>>
      [] shape = "fenced plain" -> <<Fence, "\n", tok, "\n", Fence, "\n">>
      [] shape = "prose" -> <<"Sure:", " ", tok>>
      [] shape = "prose fenced" ->
            <<"Sure:", "\n", Fence, "json", "\n", tok, "\n", Fence, "\n", "Bye">>
      [] shape = "fence only" -> <<Fence>>
      [] shape = "empty" -> << >>

\* The JSON object that gives the value under test (arg) as the fit of each
\* of the six offerings.
FitTokens == {"{fits}"}

\* json.loads: the text must be exactly one JSON value.
JsonParses(text) == Len(text) = 1 /\ text[1] \in JsonTokens \cup FitTokens

\* The parsed value is a dict.
IsObject(text) == Len(text) = 1 /\ text[1] \in ObjectTokens \cup FitTokens

-----------------------------------------------------------------------------
(* src/app.py: handle_firm_scoring *)

ScoreKeys ==
    {FitField[i] : i \in 1..6} \cup {RatField[i] : i \in 1..6}
    \cup {"best_match", "overall_notes"}

ScoreObject(fits, rats, best, overall) ==
    [k \in ScoreKeys |->
        IF \E i \in 1..6 : FitField[i] = k THEN fits[CHOOSE i \in 1..6 : FitField[i] = k]
        ELSE IF \E i \in 1..6 : RatField[i] = k THEN rats[CHOOSE i \in 1..6 : RatField[i] = k]
        ELSE IF k = "best_match" THEN best ELSE overall]

tStrong    == <<"S","t","r","o","n","g">>
tModerate  == <<"M","o","d","e","r","a","t","e">>
tWeak      == <<"W","e","a","k">>
tNA        == <<"N","/","A">>

\* The four fit values as text.
FitText == {tStrong, tModerate, tWeak, tNA}

\* The scoring objects the LLM's answers hold.
Scores(tok) ==
    CASE tok = "{valid}" ->
            ScoreObject(<<tStrong, tModerate, tWeak, tNA, tStrong, tWeak>>,
                        [i \in 1..6 |-> <<"<text 150>">>],
                        <<"StoneRiver">>, <<"<text 40>">>)
      [] tok = "{odd}" ->
            ScoreObject(<<cStrong \o cFit, <<"H","i","g","h">>, << >>,
                          <<" ","W","E","A","K","\n">>, None, Missing>>,
                        <<<<"<text 900>">>, <<"<text 900>">>, <<"<text 900>">>,
                          << >>, None, Missing>>,
                        Missing, None)
      [] tok = "{nulls}" ->
            ScoreObject([i \in 1..6 |-> None], [i \in 1..6 |-> None], None, None)
      [] tok = "{empty}" ->
            ScoreObject([i \in 1..6 |-> Missing], [i \in 1..6 |-> Missing], Missing, Missing)
      [] tok = "{blank}" ->
            ScoreObject([i \in 1..6 |-> <<" ">>], [i \in 1..6 |-> <<" ">>], <<" ">>, <<" ">>)
      [] tok \in FitTokens ->
            ScoreObject([i \in 1..6 |-> arg],
                        [i \in 1..6 |-> <<"<text 40>">>],
                        <<"StoneRiver">>, << >>)

\* Lines 389-393: the research text, from the query or the body, sanitized.
firm_research(req, d) ==
    LET raw == IF Truthy(req.query_research) THEN req.query_research
               ELSE GetD(d, "firm_research", << >>)
    IN  IF Truthy(raw)
        THEN Cut([i \in 1..Len(raw) |-> IF raw[i] \in {"\n", "\r"} THEN " " ELSE raw[i]],
                 ResearchLimit)
        ELSE raw

\* Lines 569-574: the answer without its code fence.  The first line is
\* dropped after an opening fence; without a line break that is an IndexError.
strip_fence(text) ==
    LET c1 == Strip(text)
        opened == StartsWith(c1, <<Fence>>)
        broken == opened /\ ~Contains(c1, <<"\n">>)
        c2 == IF opened /\ ~broken THEN Drop(c1, Find(c1, <<"\n">>) + 1) ELSE c1
        c3 == IF EndsWith(c2, <<Fence>>) THEN SubSeq(c2, 1, RFind(c2, <<Fence>>)) ELSE c2
    IN  [raised |-> broken, text |-> IF broken THEN c1 ELSE Strip(c3)]

\* An f-string field: None prints as 'None'.
Render(v) == IF v = None THEN <<"None">> ELSE v

RECURSIVE rationale_lines(_, _)
rationale_lines(scores, i) ==
    IF i > 6 THEN << >>
    ELSE <<RatHeading[i]>> \o Render(GetD(scores, RatField[i], << >>))
         \o rationale_lines(scores, i + 1)

\* Lines 605-620: the qualification notes.
rationale(scores) ==
    <<"Best Match: ">> \o Render(GetD(scores, "best_match", <<"TBD">>))
    \o rationale_lines(scores, 1)
    \o <<"\n\n---\n">> \o Render(GetD(scores, "overall_notes", << >>))

\* Lines 594-624: the properties written to the Firm.
notion_updates(scores) ==
    [p \in FitProps \cup {"Research Status", "Qualification Notes"} |->
        IF p = "Research Status" THEN "Qualified"
        ELSE IF p = "Qualification Notes" THEN Cut(rationale(scores), NotesLimit)
        ELSE normalize_fit(Get(scores, FitField[CHOOSE i \in 1..6 : FitProp[i] = p]))]


\* Wrong: marks the firm Qualified although the scoring failed.
scoring_failed_but_qualified(page, req, message, calls) ==
    [firm |-> Patch(page, "Research Status" :> "Qualified"),
     out |-> Json("firm_score", req, 500, [error |-> message],
                  calls \o <<Call("store", "update", "Research Status" :> "Qualified", "ok")>>)]

\* The failure outcome of a scoring trigger: str(e) in a JSON body.
scoring_failed(page, req, message, calls) ==
    [firm |-> page, out |-> Json("firm_score", req, 500, [error |-> message], calls)]

\* Lines 593-637: the record update and the response, given the parsed object.
scoring_write(page, req, d, scores, asked, updOc) ==
    LET updates == notion_updates(scores)
        page_id == Get(d, "notion_page_id")
        done == asked \o <<Call("store", "update", updates, Effective(updOc, page_id))>>
    IN  IF updOc = "raise" THEN scoring_failed(page, req, "record store", done)
        ELSE [firm |-> update_notion_page(page, page_id, updates, updOc),
              out |-> Json("firm_score", req, 200,
                           [status |-> "success", firm |-> Get(d, "firm_name"),
                            scores |-> scores], done)]

handle_firm_scoring(page, req, llmOc, text, updOc) ==
    LET d == req.payload
        research == firm_research(req, d)
        prompt == [firm_name |-> Get(d, "firm_name"), website |-> Get(d, "website"),
                   research |-> research]
        asked == <<Call("llm", "scoring", prompt, [oc |-> llmOc, text |-> text])>>
        clean == strip_fence(text)
    IN  IF research = None
        THEN [firm |-> page, out |-> Uncaught("firm_score", req, << >>)]
        ELSE IF llmOc = "raise" THEN scoring_failed(page, req, "provider", asked)
        ELSE IF clean.raised THEN scoring_failed(page, req, "IndexError", asked)
        ELSE IF ~JsonParses(clean.text)
        THEN scoring_failed(page, req, "JSON parsing failed", asked)
        ELSE IF ~IsObject(clean.text) THEN scoring_failed(page, req, "AttributeError", asked)
        ELSE scoring_write(page, req, d, Scores(clean.text[1]), asked, updOc)

-----------------------------------------------------------------------------
(* src/plinian_outreach_llm.py: PlinianOutreachGenerator.generate *)

DraftKeys == {"subject", "body", "primary_client", "secondary_clients", "reasoning"}

\* The outreach objects the LLM's answers hold.
Draft(tok) ==
    CASE tok = "{valid}" ->
            [subject |-> <<"<text 40>">>, body |-> <<"<text 900>">>,
             primary_client |-> <<"StoneRiver">>, secondary_clients |-> <<"ICW">>,
             reasoning |-> <<"<text 150>">>]
      [] tok = "{odd}" ->
            [subject |-> << >>, body |-> Missing, primary_client |-> << >>,
             secondary_clients |-> Missing, reasoning |-> <<"<text 2500>">>]
      [] tok = "{nulls}" -> [k \in DraftKeys |-> None]
      [] tok = "{empty}" -> [k \in DraftKeys |-> Missing]
      [] tok = "{blank}" ->
            [subject |-> <<"<text 40>">>, body |-> <<"<text 900>">>,
             primary_client |-> <<"StoneRiver">>, secondary_clients |-> << >>,
             reasoning |-> <<" ">>]

\* An OutreachResult as the dict generate_outreach_with_llm returns.
OutreachResult(subject, body, primary, secondary, reasoning, success, error) ==
    [subject |-> subject, body |-> body, primary_client |-> primary,
     secondary_clients |-> secondary, reasoning |-> reasoning,
     success |-> success, error |-> error]

\* Lines 602-637: the result of each except branch.
generate_failed(error) == OutreachResult(<< >>, << >>, << >>, << >>, << >>, FALSE, <<error>>)

\* Lines 586-589: the text inside the first code fence, if there is one.
unfence(text) ==
    LET inside(opener) ==
            BeforeFirst(Drop(text, Find(text, opener) + Len(opener)), <<Fence>>)
    IN  IF Contains(text, <<Fence, "json">>) THEN inside(<<Fence, "json">>)
        ELSE IF Contains(text, <<Fence>>) THEN inside(<<Fence>>)
        ELSE text

\* Wrong: a parsed value that is no object passes as a draft of defaults.
generate_any_json(llmOc, text) ==
    LET payload == Strip(unfence(text)) IN
    IF llmOc = "raise" THEN generate_failed("API error")
    ELSE IF ~JsonParses(payload) THEN generate_failed("JSON parsing error")
    ELSE LET data == IF IsObject(payload) THEN Draft(payload[1]) ELSE Draft("{empty}") IN
         OutreachResult(GetD(data, "subject", <<"Plinian Strategies - Introduction">>),
                        GetD(data, "body", << >>),
                        GetD(data, "primary_client", << >>),
                        GetD(data, "secondary_clients", << >>),
                        GetD(data, "reasoning", << >>),
                        TRUE, None)

\* Lines 546-637.  llmOc is the outcome of the API call, text its answer.
generate(llmOc, text) ==
    LET payload == Strip(unfence(text)) IN
    IF llmOc = "raise" THEN generate_failed("API error")
    ELSE IF ~JsonParses(payload) THEN generate_failed("JSON parsing error")
    ELSE IF ~IsObject(payload) THEN generate_failed("AttributeError")
    ELSE LET data == Draft(payload[1]) IN
         OutreachResult(GetD(data, "subject", <<"Plinian Strategies - Introduction">>),
                        GetD(data, "body", << >>),
                        GetD(data, "primary_client", << >>),
                        GetD(data, "secondary_clients", << >>),
                        GetD(data, "reasoning", << >>),
                        TRUE, None)

-----------------------------------------------------------------------------
(* src/response_detector.py: generate_outreach_for_firm *)

\* Lines 323-346.
fallback_outreach(firm_name) ==
    OutreachResult(<<"Plinian Strategies - Introduction">>,
                   <<"<fallback body, before the firm name>">> \o Render(firm_name)
                       \o <<"<fallback body, after the firm name>">>,
                   <<"General">>, << >>,
                   <<"Fallback template used due to LLM error">>, TRUE, None)

\* Wrong: hands on the failed result of the generator; the template is
\* used only when the generator cannot be built.
generate_outreach_for_firm_without_fallback(firm_data, has_key, llmOc, text) ==
    IF ~has_key THEN fallback_outreach(GetD(firm_data, "firm_name", <<"Unknown Firm">>))
    ELSE generate(llmOc, text)

\* Lines 293-320.  has_key: the API credential is configured, so that the
\* generator can be built; without it get_generator raises.
generate_outreach_for_firm(firm_data, has_key, llmOc, text) ==
    LET firm_name == GetD(firm_data, "firm_name", <<"Unknown Firm">>)
        result == generate(llmOc, text)
    IN  IF ~has_key THEN fallback_outreach(firm_name)
        ELSE IF result.success THEN result
        ELSE fallback_outreach(firm_name)

-----------------------------------------------------------------------------
(* src/response_detector.py: the outreach workflow *)

Today == <<"<date>">>

\* Lines 235-286: the firm details read from the page.
get_firm_details_from_notion(page, firm_id) ==
    LET part(field) ==
            IF field \in DOMAIN page /\ Truthy(page[field])
            THEN <<field, ": ">> \o page[field] ELSE << >>
        q == part("Qualification Notes")
        o == part("Firm Overview")
    IN  [firm_id |-> firm_id,
         firm_name |-> IF Truthy(page["Firm Name"]) THEN page["Firm Name"] ELSE None,
         website |-> page["Website"],
         plinian_fit |-> page["Best Matches"],
         notes |-> IF q # << >> /\ o # << >> THEN q \o <<" | ">> \o o
                   ELSE IF q # << >> THEN q
                   ELSE IF o # << >> THEN o
                   ELSE None]

GmailOutcomes == {"unconfigured", "ok", "raise"}

StubDraftUrl == <<"https://mail.google.com/mail/u/0/#drafts/GMAIL_NOT_CONFIGURED">>
DraftUrl == <<"https://mail.google.com/mail/u/0/#drafts?compose=", "<draft id>">>

\* Lines 387-437.  raised: the exception of building the MIME text of a body
\* that is None, which nothing in the function catches.
create_gmail_draft(outreach, gmailOc) ==
    LET message == [subject |-> outreach.subject, body |-> outreach.body]
        made == <<Call("mail", "create_draft", message, gmailOc)>>
    IN  IF gmailOc = "unconfigured"
        THEN [raised |-> FALSE, calls |-> << >>,
              result |-> [gmail_draft_id |-> None, gmail_draft_url |-> StubDraftUrl,
                          success |-> FALSE, error |-> <<"Gmail service not configured">>]]
        ELSE IF outreach.body = None
        THEN [raised |-> TRUE, calls |-> << >>,
              result |-> [gmail_draft_id |-> None, gmail_draft_url |-> None,
                          success |-> FALSE, error |-> <<"AttributeError">>]]
        ELSE IF gmailOc = "ok"
        THEN [raised |-> FALSE, calls |-> made,
              result |-> [gmail_draft_id |-> <<"<draft id>">>, gmail_draft_url |-> DraftUrl,
                          success |-> TRUE, error |-> None]]
        ELSE [raised |-> FALSE, calls |-> made,
              result |-> [gmail_draft_id |-> None, gmail_draft_url |-> None,
                          success |-> FALSE, error |-> <<"draft creation failed">>]]

\* Wrong: the outreach also moves the firm to a status of its own.
outreach_updates_with_status(page, outreach, gmail_result) ==
    ("Research Status" :> "Outreach Sent")
    @@ ("Relationship Stage" :> "Initial Outreach")
    @@ ("Last Contact Date" :> Today)
    @@ ("Last Outreach Run" :> Today)

\* Wrong: the outreach entry replaces the notes instead of following them.
outreach_updates_replacing_notes(page, outreach, gmail_result) ==
    LET has(p) == p \in DOMAIN page
        note == Strip(<<"[Outreach ">> \o Today \o <<"] ">> \o outreach.reasoning)
    IN  (IF has("Relationship Stage")
         THEN "Relationship Stage" :> "Initial Outreach" ELSE << >>)
        @@ (IF has("Last Contact Date") THEN "Last Contact Date" :> Today ELSE << >>)
        @@ (IF has("Outreach Draft URL") /\ Truthy(gmail_result.gmail_draft_url)
            THEN "Outreach Draft URL" :> gmail_result.gmail_draft_url ELSE << >>)
        @@ (IF has("Latest Outreach Subject") /\ Truthy(outreach.subject)
            THEN "Latest Outreach Subject" :> Cut(outreach.subject, NotesLimit) ELSE << >>)
        @@ (IF has("Latest Outreach Client") /\ Truthy(outreach.primary_client)
            THEN "Latest Outreach Client" :> outreach.primary_client ELSE << >>)
        @@ (IF has("Qualification Notes") /\ Truthy(outreach.reasoning)
            THEN "Qualification Notes" :> Cut(note, NotesLimit) ELSE << >>)
        @@ (IF has("Last Outreach Run") THEN "Last Outreach Run" :> Today ELSE << >>)

\* Lines 454-492: the properties written to the Firm.
outreach_updates(page, outreach, gmail_result) ==
    LET has(p) == p \in DOMAIN page
        note == Strip(page["Qualification Notes"] \o <<"\n\n", "[Outreach ">> \o Today
                      \o <<"] ">> \o outreach.reasoning)
    IN  (IF has("Relationship Stage")
         THEN "Relationship Stage" :> "Initial Outreach" ELSE << >>)
        @@ (IF has("Last Contact Date") THEN "Last Contact Date" :> Today ELSE << >>)
        @@ (IF has("Outreach Draft URL") /\ Truthy(gmail_result.gmail_draft_url)
            THEN "Outreach Draft URL" :> gmail_result.gmail_draft_url ELSE << >>)
        @@ (IF has("Latest Outreach Subject") /\ Truthy(outreach.subject)
            THEN "Latest Outreach Subject" :> Cut(outreach.subject, NotesLimit) ELSE << >>)
        @@ (IF has("Latest Outreach Client") /\ Truthy(outreach.primary_client)
            THEN "Latest Outreach Client" :> outreach.primary_client ELSE << >>)
        @@ (IF has("Qualification Notes") /\ Truthy(outreach.reasoning)
            THEN "Qualification Notes" :> Cut(note, NotesLimit) ELSE << >>)
        @@ (IF has("Last Outreach Run") THEN "Last Outreach Run" :> Today ELSE << >>)

\* Lines 440-499.  The record store client raises on every failure.
update_firm_page_with_outreach(page, firm_data, outreach, gmail_result, getOc, updOc) ==
    LET firm_id == firm_data.firm_id
        got == <<Call("store", "get", firm_id, Effective(getOc, firm_id))>>
        updates == outreach_updates(page, outreach, gmail_result)
        done == got \o <<Call("store", "update", updates, Effective(updOc, firm_id))>>
    IN  IF ~Truthy(firm_id) THEN [raised |-> FALSE, page |-> page, calls |-> << >>]
        ELSE IF Effective(getOc, firm_id) # "ok"
        THEN [raised |-> TRUE, page |-> page, calls |-> got]
        ELSE IF DOMAIN updates = {} THEN [raised |-> FALSE, page |-> page, calls |-> got]
        ELSE IF Effective(updOc, firm_id) # "ok"
        THEN [raised |-> TRUE, page |-> page, calls |-> done]
        ELSE [raised |-> FALSE, page |-> Patch(page, updates), calls |-> done]

\* Lines 568-574: the outcome of the except branch.
outreach_error(page, req, firm_id, calls) ==
    [firm |-> page,
     out |-> Json("outreach", req, 500, [status |-> "error", firm_id |-> firm_id], calls)]

\* Lines 506-574.  details is the page as get_firm_details_from_notion read
\* it (line 237), page the page as update_firm_page_with_outreach retrieved
\* it (line 451).
outreach_webhook(details, page, req, loadOc, has_key, llmOc, text, gmailOc, getOc, updOc) ==
    LET d == req.payload
        firm_id == IF Truthy(Get(d, "firm_id")) THEN d.firm_id ELSE Get(d, "data_id")
        loaded == <<Call("store", "get", firm_id, Effective(loadOc, firm_id))>>
        firm_data == get_firm_details_from_notion(details, firm_id)
        outreach == generate_outreach_for_firm(firm_data, has_key, llmOc, text)
        asked == IF has_key
                 THEN loaded \o <<Call("llm", "outreach", firm_data, [oc |-> llmOc, text |-> text])>>
                 ELSE loaded
        gmail == create_gmail_draft(outreach, gmailOc)
        mailed == asked \o gmail.calls
        upd == update_firm_page_with_outreach(page, firm_data, outreach, gmail.result,
                                              getOc, updOc)
    IN  IF ~Truthy(firm_id)
        THEN [firm |-> page,
              out |-> Json("outreach", req, 400,
                           [status |-> "error", message |-> "Missing required field: firm_id"],
                           << >>)]
        ELSE IF Effective(loadOc, firm_id) # "ok" THEN outreach_error(page, req, firm_id, loaded)
        ELSE IF gmail.raised THEN outreach_error(page, req, firm_id, mailed)
        ELSE IF upd.raised THEN outreach_error(page, req, firm_id, mailed \o upd.calls)
        ELSE [firm |-> upd.page,
              out |-> Json("outreach", req, 200,
                           [status |-> "ok", firm_id |-> firm_id,
                            firm_name |-> firm_data.firm_name,
                            primary_client |-> outreach.primary_client,
                            reasoning |-> outreach.reasoning,
                            gmail_draft_url |-> gmail.result.gmail_draft_url,
                            gmail_success |-> gmail.result.success],
                           mailed \o upd.calls)]

-----------------------------------------------------------------------------
(* src/response_detector.py: the reply workflow *)

positive_keywords ==
    {<<"i","n","t","e","r","e","s","t","e","d">>,
     <<"y","e","s">>,
     <<"s","o","u","n","d","s"," ","g","o","o","d">>,
     <<"l","e","t","'","s"," ","d","i","s","c","u","s","s">>,
     <<"h","a","p","p","y"," ","t","o">>,
     <<"w","o","u","l","d"," ","l","o","v","e"," ","t","o">>,
     <<"a","b","s","o","l","u","t","e","l","y">>,
     <<"d","e","f","i","n","i","t","e","l","y">>,
     <<"g","r","e","a","t">>,
     <<"p","e","r","f","e","c","t">>,
     <<"s","c","h","e","d","u","l","e">>,
     <<"m","e","e","t","i","n","g">>,
     <<"c","a","l","l">>,
     <<"c","o","n","n","e","c","t">>}

negative_keywords ==
    {<<"n","o","t"," ","i","n","t","e","r","e","s","t","e","d">>,
     <<"n","o"," ","t","h","a","n","k"," ","y","o","u">>,
     <<"p","a","s","s">>,
     <<"n","o","t"," ","a"," ","f","i","t">>,
     <<"d","e","c","l","i","n","e">>,
     <<"u","n","s","u","b","s","c","r","i","b","e">>,
     <<"r","e","m","o","v","e">>,
     <<"s","t","o","p">>,
     <<"n","o","t"," ","a","t"," ","t","h","i","s"," ","t","i","m","e">>}

\* Wrong: the class with more keyword hits wins, so that a body with one
\* negative and two positive keywords is Positive.
classify_response_tone_by_majority(email_body) ==
    LET body_lower == Lower(email_body)
        positive_count == Cardinality({k \in positive_keywords : Contains(body_lower, k)})
        negative_count == Cardinality({k \in negative_keywords : Contains(body_lower, k)})
    IN  IF negative_count > positive_count THEN "Responded - Negative"
        ELSE IF positive_count > 0 THEN "Responded - Positive"
        ELSE IF negative_count > 0 THEN "Responded - Negative"
        ELSE "Responded - Neutral"

\* Lines 111-136.  The dash of the three results is written as a hyphen here.
classify_response_tone(email_body) ==
    LET body_lower == Lower(email_body)
        positive_count == Cardinality({k \in positive_keywords : Contains(body_lower, k)})
        negative_count == Cardinality({k \in negative_keywords : Contains(body_lower, k)})
    IN  IF negative_count > 0 THEN "Responded - Negative"
        ELSE IF positive_count > 0 THEN "Responded - Positive"
        ELSE "Responded - Neutral"

\* The Outreach Log entry of the one thread that outreach has been sent on.
Thread1 == <<"thread-1">>
Entry1 == <<"entry-1">>

\* Lines 149-179: the properties written to the entry.
reply_properties(page, response_status, response_date, email_body) ==
    ("Response Status" :> response_status)
    @@ ("Response Date" :> response_date)
    @@ ("Outcome" :> IF response_status # "Responded - Negative"
                     THEN "In Discussion" ELSE "Declined")
    @@ ("Follow-up Required" :> FALSE)
    @@ (IF Truthy(email_body)
        THEN "Notes" :> page["Notes"] \o <<"\n\n", "[Response received ">> \o response_date
                        \o <<"]\n">> \o Cut(email_body, ExcerptLimit) \o <<"...">>
        ELSE << >>)

\* Lines 139-186: the entry after the update and the boolean returned.  The
\* entry is retrieved only for a reply with a body.
update_outreach_entry(page, response_status, response_date, email_body, getOc, updOc) ==
    LET reads == Truthy(email_body)
        got == IF reads THEN <<Call("store", "get", Entry1, getOc)>> ELSE << >>
        properties == reply_properties(page, response_status, response_date, email_body)
        done == got \o <<Call("store", "update", properties, updOc)>>
    IN  IF reads /\ getOc # "ok" THEN [ok |-> FALSE, page |-> page, calls |-> got]
        ELSE IF updOc # "ok" THEN [ok |-> FALSE, page |-> page, calls |-> done]
        ELSE [ok |-> TRUE, page |-> Patch(page, properties), calls |-> done]

\* A JSON number in the place of a string: truthy, and it has no slice.
Number == <<"<number>">>

\* Lines 196-197 and 212: the date of the reply, today when the event has no
\* received_date.
reply_date(received_date) ==
    IF ~Truthy(received_date) THEN Today ELSE Cut(received_date, DateLimit)

\* Lines 189-224 and 577-618.
email_reply_webhook(page, req, searchOc, getOc, updOc) ==
    LET d == req.payload
        thread_id == Get(d, "thread_id")
        sender_email == IF Truthy(Get(d, "sender_email")) THEN d.sender_email
                        ELSE <<"unknown@example.com">>
        email_body == Get(d, "email_body")
        received_date == Get(d, "received_date")
        searched == <<Call("store", "query", thread_id, searchOc)>>
        found == searchOc = "ok" /\ page["Gmail Thread ID"] = thread_id
        response_status == classify_response_tone(email_body)
        upd == update_outreach_entry(page, response_status, reply_date(received_date),
                                     email_body, getOc, updOc)
        reject(message) ==
            [entry |-> page,
             out |-> Json("email_reply", req, 400,
                          [status |-> "error", message |-> message], << >>)]
    IN  IF ~Truthy(thread_id) THEN reject("Missing required field: thread_id")
        ELSE IF ~Truthy(email_body) THEN reject("Missing required field: email_body")
        ELSE IF ~found
        THEN [entry |-> page,
              out |-> Json("email_reply", req, 200, [status |-> "not_found"], searched)]
        ELSE IF received_date = Number
        THEN [entry |-> page,
              out |-> Json("email_reply", req, 500,
                           [status |-> "error",
                            message |-> "'int' object is not subscriptable"], searched)]
        ELSE IF upd.ok
        THEN [entry |-> upd.page,
              out |-> Json("email_reply", req, 200,
                           [status |-> "updated",
                            message |-> <<"Updated outreach entry for ">> \o sender_email,
                            page_id |-> Entry1,
                            response_status |-> response_status], searched \o upd.calls)]
        ELSE [entry |-> page,
              out |-> Json("email_reply", req, 500,
                           [status |-> "error", message |-> "Failed to update Notion"],
                           searched \o upd.calls)]

-----------------------------------------------------------------------------
(* The requests of the handlers *)

NewFirmPayload(has_body, format, id, title, url, checkbox) ==
    [has_body |-> has_body, format |-> format, id |-> id, title |-> title, url |-> url,
     checkbox |-> checkbox]

FirmEnrichedPayload(has_body, id, linkedin, description, hq, people, firm_name) ==
    [has_body |-> has_body, notion_page_id |-> id, company_linkedin_url |-> linkedin,
     description |-> description, headquarters |-> hq, people |-> people,
     firm_name |-> firm_name]

PeopleOf(req) == IF Truthy(GetD(req.payload, "people", << >>)) THEN req.payload.people ELSE << >>

ScoringPayload(has_body, id, firm_name, website, research) ==
    [has_body |-> has_body, notion_page_id |-> id, firm_name |-> firm_name,
     website |-> website, firm_research |-> research]

OutreachPayload(has_body, firm_id, data_id) ==
    [has_body |-> has_body, firm_id |-> firm_id, data_id |-> data_id]

PersonPayload(has_body, full_name, company_name, email, title, linkedin_url) ==
    [has_body |-> has_body, full_name |-> full_name, company_name |-> company_name,
     email |-> email, title |-> title, linkedin_url |-> linkedin_url]

EnrichPayload(has_body, page_id, full_name, company_name, linkedin_url) ==
    [has_body |-> has_body, page_id |-> page_id, full_name |-> full_name,
     company_name |-> company_name, linkedin_url |-> linkedin_url]

ReplyPayload(has_body, thread_id, sender_email, email_body, received_date) ==
    [has_body |-> has_body, thread_id |-> thread_id, sender_email |-> sender_email,
     email_body |-> email_body, received_date |-> received_date]

-----------------------------------------------------------------------------
(* The requests and outcomes the model draws from *)

\* Most Contact pages the model lets the handlers create.
MaxContacts == 3

\* Most outreach entries the model lets the notes of the Firm hold.
MaxOutreachNotes == 2

\* Most replies the model lets the Outreach Log entry record.
MaxReplies == 2

\* Most requests the model lets be in the handlers at one time.
MaxInFlight == 2

\* Most requests the model lets arrive in one behaviour.
MaxServed == 3

wAcme   == <<"h","t","t","p","s",":","/","/","w","w","w",".","A","c","m","e",".","c","o","/","x">>
wStored == <<"h","t","t","p",":","/","/","a","c","m","e",".","c","o">>
wNoHost == <<"h","t","t","p","s",":","/","/">>

Acme == <<"Acme Capital">>

Idle ==
    [handler |-> "none", req |-> << >>, kind |-> "json", code |-> 0,
     body |-> [status |-> "idle"], calls |-> << >>]

NewEntry ==
    [p \in {"Gmail Thread ID", "Response Status", "Response Date", "Outcome",
            "Follow-up Required", "Notes"} |->
        CASE p = "Gmail Thread ID" -> Thread1
          [] p = "Response Status" -> ""
          [] p = "Outcome" -> ""
          [] p = "Follow-up Required" -> TRUE
          [] p = "Response Date" -> None
          [] OTHER -> << >>]

\* The number of outreach entries in the notes.  An entry whose marker the
\* cut of the notes went through is none.
OutreachNotes(page) ==
    LET s == page["Qualification Notes"] IN
    Cardinality({i \in 1..Len(s) :
                    s[i] = "[Outreach " /\ ~(i < Len(s) /\ s[i + 1] \in CutMarks)})

\* The replies recorded in the notes of the entry.
RepliesNoted(page) ==
    LET s == page["Notes"] IN
    Cardinality({i \in 1..Len(s) :
                    s[i] = "[Response received " /\ ~(i < Len(s) /\ s[i + 1] \in CutMarks)})

-----------------------------------------------------------------------------
(* Handler invocations.  The server handles each request in its own thread  *)
(* and holds no lock.  Every external call of a handler (record store,      *)
(* relay, LLM, mail) blocks, and the calls of other invocations come        *)
(* between the calls of one.  An invocation is one step up to its first     *)
(* call and one step for each call: the call is answered, the record store  *)
(* changes if it was an accepted write, and the handler runs on to its next *)
(* call or to its response.  inflight is the bag of the invocations that    *)
(* are in the handlers: for each the request, the configuration it runs     *)
(* under, the outcomes of the calls it has made, in order, what it has read *)
(* from the record store, and the call it is blocked in.                     *)

\* has_key: the LLM credential is set.  gmail: the mail service is set up.
Envs == {[has_key |-> k, gmail |-> g] : k, g \in BOOLEAN}
NoEnv == [has_key |-> FALSE, gmail |-> FALSE]

Invocation(h, req, env) ==
    [at |-> h, req |-> req, env |-> env, ocs |-> << >>, seen |-> << >>,
     call |-> [svc |-> "none", op |-> "none"]]

\* The outcome of one call: text is the answer of the LLM.
Made(svc, op, oc, text) == [svc |-> svc, op |-> op, oc |-> oc, text |-> text]

StoreAnswers == {Made("store", "any", oc, << >>) : oc \in StoreOutcomes}
RelayAnswers == {Made("relay", "any", oc, << >>) : oc \in RelayOutcomes}
MailAnswers  == {Made("mail", "any", oc, << >>) : oc \in GmailOutcomes \ {"unconfigured"}}
Accepted     == {Made("store", "any", "ok", << >>)}

\* The outcome of the n-th call that the invocation made to a service; a
\* call it has not made yet is taken as answered, which decides nothing
\* about the calls before it.
Oc(w, svc, op, n) ==
    LET os == SelectSeq(w.ocs, LAMBDA o : o.svc = svc /\ o.op = op)
    IN  IF n <= Len(os) THEN os[n] ELSE Made(svc, op, "ok", << >>)

\* A page of which nothing has been read.
Unread(h) == IF h = "email_reply" THEN NewEntry ELSE NewFirmPage(<< >>, None, FALSE)

\* Wrong: the page as the record store holds it at the time of the write,
\* as if the handler held a lock on it from its read on.
SeenNow(w, n) == IF w.at = "email_reply" THEN entry ELSE firm

\* What the n-th read of the invocation returned.
Seen(w, n) == IF n >= 1 /\ n <= Len(w.seen) THEN w.seen[n] ELSE Unread(w.at)

\* The outcome of the n-th call op of the invocation to the record store,
\* and that of its call to the LLM.
StoreOc(w, op, n) == Oc(w, "store", op, n).oc
LlmOc(w, op) == IF Oc(w, "llm", op, 1).oc = "ok" THEN "text" ELSE Oc(w, "llm", op, 1).oc

\* The handlers, each run on what the invocation has read and on the
\* outcomes of its calls: the response and the trace of the calls.
RunNewFirm(w) ==
    handle_notion_new_firm(Seen(w, 1), w.req, Oc(w, "relay", "firm", 1).oc,
                           StoreOc(w, "get", 1), StoreOc(w, "update", 1)).out

RunFirmEnriched(w) ==
    handle_clay_firm_enriched(Seen(w, 1), << >>, w.req, StoreOc(w, "update", 1),
                              [i \in 1..Len(PeopleOf(w.req)) |->
                                  StoreOc(w, "create", i)]).out

RunFirmScoring(w) ==
    handle_firm_scoring(Seen(w, 1), w.req, LlmOc(w, "scoring"),
                        Oc(w, "llm", "scoring", 1).text, StoreOc(w, "update", 1)).out

RunPersonEnriched(w) ==
    handle_clay_person_enriched(<< >>, w.req, StoreOc(w, "create", 1)).out

RunEnrichPerson(w) ==
    handle_enrich_person(contacts, w.req, Oc(w, "relay", "person", 1).oc,
                         StoreOc(w, "update", 1)).out

RunOutreach(w) ==
    outreach_webhook(Seen(w, 1), Seen(w, 2), w.req, StoreOc(w, "get", 1),
                     w.env.has_key,
                     IF w.env.has_key THEN LlmOc(w, "outreach") ELSE "raise",
                     Oc(w, "llm", "outreach", 1).text,
                     IF w.env.gmail THEN Oc(w, "mail", "create_draft", 1).oc
                     ELSE "unconfigured",
                     StoreOc(w, "get", 2), StoreOc(w, "update", 1)).out

RunEmailReply(w) ==
    email_reply_webhook(Seen(w, Len(w.seen)), w.req, StoreOc(w, "query", 1),
                        StoreOc(w, "get", 1), StoreOc(w, "update", 1)).out

\* The invocation blocked in the call that follows the calls it has made,
\* r being its handler run on up to there.
Blocked(w, r) ==
    LET c == r.calls[Len(w.ocs) + 1] IN [w EXCEPT !.call = [svc |-> c.svc, op |-> c.op]]

\* The invocations in the handlers that run one handler.
InFlight(h) == {w \in BagToSet(inflight) : w.at = h}

\* The properties of the page that the handler uses of what a read returns.
Reads(w, c) ==
    CASE c.op = "query" -> {"Gmail Thread ID"}
      [] c.op = "get" /\ w.at = "email_reply" -> {"Notes"}
      [] c.op = "get" /\ w.at = "new_firm" -> {"Website", "Firm Name"}
      [] c.op = "get" /\ w.at = "outreach" /\ w.seen = << >> ->
            {"Firm Name", "Website", "Best Matches", "Qualification Notes", "Firm Overview"}
      [] c.op = "get" /\ w.at = "outreach" -> {"Qualification Notes"}
      [] OTHER -> {}

\* What the invocation knows of the page after the read: what the read
\* returned of the page as the record store holds it now.
View(w, c) ==
    LET page == IF w.at = "email_reply" THEN entry ELSE firm
        last == Seen(w, Len(w.seen))
    IN  [p \in DOMAIN page |-> IF p \in Reads(w, c) THEN page[p] ELSE last[p]]

\* The invocation after its call c was answered with o: the outcome, and
\* what the call returned if it was a read.
Answered(w, c, o) ==
    [w EXCEPT !.ocs = Append(@, Made(c.svc, c.op, o.oc, o.text)),
              !.seen = IF Reads(w, c) = {} THEN @ ELSE Append(@, View(w, c)),
              !.call = [svc |-> "none", op |-> "none"]]

\* The Contact pages still to create by the invocations of a bag.
Creating(w) ==
    CASE w.at = "person_enriched" -> IF NoBody(w.req.payload) THEN 0 ELSE 1
      [] w.at = "firm_enriched" ->
            IF NoBody(w.req.payload) THEN 0
            ELSE Len(PeopleOf(w.req))
                 - Len(SelectSeq(w.ocs, LAMBDA o : o.op = "create"))
      [] OTHER -> 0

RECURSIVE PendingCreates(_)
PendingCreates(b) ==
    IF BagToSet(b) = {} THEN 0
    ELSE LET w == CHOOSE x \in BagToSet(b) : TRUE
         IN  Creating(w) + PendingCreates(b (-) SetToBag({w}))

\* The bounds of the model: the request is taken only if the pages and
\* notes stay within them.
Admits(w) ==
    /\ served < MaxServed
    /\ BagCardinality(inflight) < MaxInFlight
    /\ CASE w.at \in {"person_enriched", "firm_enriched"} ->
               Len(contacts) + PendingCreates(inflight) + Creating(w) <= MaxContacts
         [] w.at = "outreach" ->
               OutreachNotes(firm) + BagCardinality([v \in InFlight("outreach") |-> inflight[v]])
                   < MaxOutreachNotes
         [] w.at = "email_reply" ->
               RepliesNoted(entry) + BagCardinality([v \in InFlight("email_reply") |-> inflight[v]])
                   < MaxReplies
         [] OTHER -> TRUE

\* The invocations that requests to handler h under environments envs start.
Arriving(h, requests, envs) == {Invocation(h, req, env) : req \in requests, env \in envs}

\* A request arrives: w is its invocation and r its handler run up to its
\* first call, or to its response if it makes none.
Receive(w, r) ==
    /\ Admits(w)
    /\ IF r.calls = << >>
       THEN out' = r /\ UNCHANGED inflight
       ELSE inflight' = inflight (+) SetToBag({Blocked(w, r)}) /\ UNCHANGED out
    /\ served' = served + 1
    /\ UNCHANGED <<firm, contacts, entry, fn, arg, res>>

\* The handlers that write the Firm page.
FirmHandlers == {"new_firm", "firm_enriched", "firm_score", "outreach"}

\* The call of invocation w has returned, w1 is the invocation after it and
\* r its handler run on.  An accepted write changes the page as the record
\* store holds it now; then the handler is at its next call, or at its
\* response.  A read that failed returned nothing.
Returns(w, w1, r) ==
    LET c == r.calls[Len(w1.ocs)]
        wrote(op) == c.svc = "store" /\ c.op = op /\ c.result = "ok"
        failed == c.svc = "store" /\ c.op \in {"get", "query"} /\ c.result # "ok"
    IN  /\ firm' = IF wrote("update") /\ w.at \in FirmHandlers
                   THEN Patch(firm, c.args) ELSE firm
        /\ contacts' = IF wrote("create") THEN Append(contacts, NewContactPage(c.args))
                       ELSE IF wrote("update") /\ w.at = "enrich_person"
                       THEN update_contact_page(contacts, w.req.payload.page_id, c.args, "ok")
                       ELSE contacts
        /\ entry' = IF wrote("update") /\ w.at = "email_reply"
                    THEN Patch(entry, c.args) ELSE entry
        /\ IF Len(r.calls) = Len(w1.ocs)
           THEN /\ out' = r
                /\ inflight' = inflight (-) SetToBag({w})
           ELSE /\ out' = out
                /\ inflight' = (inflight (-) SetToBag({w}))
                                (+) SetToBag({Blocked(IF failed
                                                      THEN [w1 EXCEPT !.seen = w.seen]
                                                      ELSE w1, r)})
        /\ UNCHANGED <<fn, arg, res, served>>

\* The invocations of handler h that are blocked in their n-th call op to
\* service svc.
Waiting(h, svc, op, n) ==
    {w \in InFlight(h) :
        /\ w.call = [svc |-> svc, op |-> op]
        /\ Len(SelectSeq(w.ocs, LAMBDA o : o.svc = svc /\ o.op = op)) = n - 1}

\* The response is handed to the caller.  out holds the outcome of the
\* invocation that ended last, until it is handed over; the steps of the
\* handlers wait for that, which takes no order of their calls away.
Respond ==
    /\ out # Idle
    /\ out' = Idle
    /\ UNCHANGED <<firm, contacts, entry, fn, arg, res, inflight, served>>

-----------------------------------------------------------------------------
(* The enrichment service: new-firm events and firm callbacks *)

NewFirmPayloads ==
    {NewFirmPayload(FALSE, "flat", Missing, Missing, Missing, FALSE)}
    \cup {NewFirmPayload(TRUE, "nested", id, Acme, url, checkbox) :
            id \in {F1, Missing}, url \in {wAcme, None, wNoHost}, checkbox \in BOOLEAN}
    \cup {NewFirmPayload(TRUE, "flat", id, title, url, FALSE) :
            id \in {F1, UnknownId}, title \in {Acme, Missing}, url \in {wAcme, Missing}}

NewFirmRequests ==
    {[secret_set |-> FALSE, signature_matches |-> FALSE, payload |-> p] : p \in NewFirmPayloads}
    \cup {[secret_set |-> TRUE, signature_matches |-> b,
           payload |-> NewFirmPayload(TRUE, "flat", F1, Acme, wAcme, FALSE)] : b \in BOOLEAN}

\* Lines 143-182: the event is received and its fields are read.
NewFirmReceive ==
    out = Idle /\ \E w \in Arriving("new_firm", NewFirmRequests, {NoEnv}) :
        \E r \in {RunNewFirm(w)} : Receive(w, r)

\* Lines 183-198: the stored page is read for an event without a website,
\* and the domain resolved.
NewFirmLookup ==
    out = Idle /\ \E w \in Waiting("new_firm", "store", "get", 1), o \in StoreAnswers :
        \E w1 \in {Answered(w, w.call, o)} : \E r \in {RunNewFirm(w1)} : Returns(w, w1, r)

\* Lines 200-207 and 219-220: the dispatch to the relay.
NewFirmSend ==
    out = Idle /\ \E w \in Waiting("new_firm", "relay", "firm", 1), o \in RelayAnswers :
        \E w1 \in {Answered(w, w.call, o)} : \E r \in {RunNewFirm(w1)} : Returns(w, w1, r)

\* Lines 209-218: the record update, and the response.
NewFirmUpdate ==
    out = Idle /\ \E w \in Waiting("new_firm", "store", "update", 1), o \in StoreAnswers :
        \E w1 \in {Answered(w, w.call, o)} : \E r \in {RunNewFirm(w1)} : Returns(w, w1, r)

FirmEnrichedRequests ==
    {[payload |-> p] : p \in
        {FirmEnrichedPayload(FALSE, Missing, Missing, Missing, Missing, Missing, Missing),
         FirmEnrichedPayload(TRUE, Missing, Missing, Missing, Missing, <<"ann">>, Acme),
         FirmEnrichedPayload(TRUE, F1, Missing, Missing, Missing, Missing, Missing),
         FirmEnrichedPayload(TRUE, F1, Missing, << >>, None, None, Acme),
         FirmEnrichedPayload(TRUE, UnknownId, <<"in/acme">>, <<"<text 300>">>, <<"Boston">>,
                             <<"ann">>, Acme)}
        \cup {FirmEnrichedPayload(TRUE, F1, <<"in/acme">>, <<"<text 2500>">>, <<"Boston">>,
                                  people, Acme) :
                people \in {<< >>, <<"ann">>, <<"ann", "ann">>, <<"bob", "anon">>,
                            <<"null", "ann">>}}}

\* The callbacks of the relay for the firm: without people, and without id.
LifeFirmEnrichedRequests ==
    {[payload |-> p] : p \in
        {FirmEnrichedPayload(TRUE, F1, <<"in/acme">>, <<"<text 2500>">>, <<"Boston">>,
                             << >>, Acme),
         FirmEnrichedPayload(TRUE, Missing, Missing, Missing, Missing, << >>, Acme)}}

\* Lines 250-270: the callback is received and the update of the Firm built.
FirmEnrichedReceive ==
    out = Idle /\ \E w \in Arriving("firm_enriched", FirmEnrichedRequests, {NoEnv}) :
        \E r \in {RunFirmEnriched(w)} : Receive(w, r)

LifeFirmEnrichedReceive ==
    out = Idle /\ \E w \in Arriving("firm_enriched", LifeFirmEnrichedRequests, {NoEnv}) :
        \E r \in {RunFirmEnriched(w)} : Receive(w, r)

\* Line 272: the update of the Firm.
FirmEnrichedUpdate ==
    out = Idle /\ \E w \in Waiting("firm_enriched", "store", "update", 1), o \in StoreAnswers :
        \E w1 \in {Answered(w, w.call, o)} : \E r \in {RunFirmEnriched(w1)} : Returns(w, w1, r)

\* Lines 273-284: the create of the Contact of one person of the list.
FirmEnrichedCreate ==
    \E n \in 1..MaxContacts :
        out = Idle /\ \E w \in Waiting("firm_enriched", "store", "create", n), o \in StoreAnswers :
        \E w1 \in {Answered(w, w.call, o)} : \E r \in {RunFirmEnriched(w1)} : Returns(w, w1, r)

\* The store as the CRM hands it over: one Firm, no Contact made by this
\* system yet, one Outreach Log entry without a reply.
Init ==
    /\ firm \in {NewFirmPage(Acme, w, r) : w \in {wStored, None}, r \in BOOLEAN}
    /\ contacts = << >>
    /\ entry = NewEntry
    /\ out = Idle
    /\ fn = "idle"
    /\ arg = << >>
    /\ res = << >>
    /\ inflight = EmptyBag
    /\ served = 0

Next ==
    \/ NewFirmReceive
    \/ NewFirmLookup
    \/ NewFirmSend
    \/ NewFirmUpdate
    \/ LifeFirmEnrichedReceive
    \/ FirmEnrichedUpdate
    \/ Respond

Spec == Init /\ [][Next]_vars

-----------------------------------------------------------------------------
(* Scoring triggers and outreach triggers on one firm *)

ScoringRequests ==
    {[query_research |-> << >>, payload |-> p] : p \in
        {ScoringPayload(FALSE, Missing, Missing, Missing, Missing),
         ScoringPayload(TRUE, F1, Acme, wAcme, <<"<text 300>", "\n", "<text 40>">>),
         ScoringPayload(TRUE, F1, Acme, Missing, None),
         ScoringPayload(TRUE, Missing, Acme, wAcme, <<"<text 300>">>),
         ScoringPayload(TRUE, UnknownId, Missing, Missing, Missing)}}
    \cup {[query_research |-> <<"<text 6000>">>,
           payload |-> ScoringPayload(TRUE, F1, Acme, wAcme, Missing)]}

\* The answers the LLM gives in the handler specifications: every shape
\* around one object, and every JSON value bare.
Answers ==
    {Answer(shape, "{valid}") : shape \in AnswerShapes}
    \cup {Answer("bare", tok) : tok \in JsonTokens}

LlmOutcomes == {"raise", "text"}

\* The outcomes of an LLM call: it raises, or it answers one of the texts.
LlmAnswers(texts) ==
    {Made("llm", "any", "raise", << >>)} \cup {Made("llm", "any", "text", t) : t \in texts}

\* Lines 376-556: the trigger is received and the prompt built.
FirmScoringReceive ==
    out = Idle /\ \E w \in Arriving("firm_score", ScoringRequests, {NoEnv}) :
        \E r \in {RunFirmScoring(w)} : Receive(w, r)

\* Lines 557-591: the LLM call, and the parse of its answer.
FirmScoringAsk(texts) ==
    out = Idle /\ \E w \in Waiting("firm_score", "llm", "scoring", 1), o \in LlmAnswers(texts) :
        \E w1 \in {Answered(w, w.call, o)} : \E r \in {RunFirmScoring(w1)} : Returns(w, w1, r)

\* Lines 593-637: the record update, and the response.
FirmScoringUpdate ==
    out = Idle /\ \E w \in Waiting("firm_score", "store", "update", 1), o \in StoreAnswers :
        \E w1 \in {Answered(w, w.call, o)} : \E r \in {RunFirmScoring(w1)} : Returns(w, w1, r)

OutreachRequests ==
    {[payload |-> p] : p \in
        {OutreachPayload(FALSE, Missing, Missing),
         OutreachPayload(TRUE, F1, Missing),
         OutreachPayload(TRUE, Missing, F1),
         OutreachPayload(TRUE, << >>, UnknownId)}}

\* Lines 506-527: the trigger is received.
OutreachReceive(requests, envs) ==
    out = Idle /\ \E w \in Arriving("outreach", requests, envs) :
        \E r \in {RunOutreach(w)} : Receive(w, r)

\* Line 237 (called at line 531): the firm details are loaded.
OutreachLoad(outcomes) ==
    out = Idle /\ \E w \in Waiting("outreach", "store", "get", 1), o \in outcomes :
        \E w1 \in {Answered(w, w.call, o)} : \E r \in {RunOutreach(w1)} : Returns(w, w1, r)

\* Line 538: the draft is composed by the LLM.
OutreachCompose(texts) ==
    out = Idle /\ \E w \in Waiting("outreach", "llm", "outreach", 1), o \in LlmAnswers(texts) :
        \E w1 \in {Answered(w, w.call, o)} : \E r \in {RunOutreach(w1)} : Returns(w, w1, r)

\* Line 542: the mail draft is created.
OutreachMail(outcomes) ==
    out = Idle /\ \E w \in Waiting("outreach", "mail", "create_draft", 1), o \in outcomes :
        \E w1 \in {Answered(w, w.call, o)} : \E r \in {RunOutreach(w1)} : Returns(w, w1, r)

\* Line 451 (called at line 546): the Firm page is retrieved.
OutreachRetrieve(outcomes) ==
    out = Idle /\ \E w \in Waiting("outreach", "store", "get", 2), o \in outcomes :
        \E w1 \in {Answered(w, w.call, o)} : \E r \in {RunOutreach(w1)} : Returns(w, w1, r)

\* Lines 453-498: the update is built from the retrieved page and written.
OutreachUpdate(outcomes) ==
    out = Idle /\ \E w \in Waiting("outreach", "store", "update", 1), o \in outcomes :
        \E w1 \in {Answered(w, w.call, o)} : \E r \in {RunOutreach(w1)} : Returns(w, w1, r)

\* One firm with a website, as the enrichment service left it.
InitOneFirm ==
    /\ firm = NewFirmPage(Acme, wStored, FALSE)
    /\ contacts = << >>
    /\ entry = NewEntry
    /\ out = Idle
    /\ fn = "idle"
    /\ arg = << >>
    /\ res = << >>
    /\ inflight = EmptyBag
    /\ served = 0

NextScoring ==
    \/ FirmScoringReceive
    \/ FirmScoringAsk(Answers)
    \/ FirmScoringUpdate
    \/ Respond

SpecScoring == InitOneFirm /\ [][NextScoring]_vars

-----------------------------------------------------------------------------
(* Outreach triggers on one firm, before and after its scoring *)

\* The scoring trigger of the firm.
LifeScoringRequest ==
    [query_research |-> << >>,
     payload |-> ScoringPayload(TRUE, F1, Acme, wAcme, <<"<text 300>">>)]

LifeFirmScoringReceive ==
    out = Idle /\ \E w \in Arriving("firm_score", {LifeScoringRequest}, {NoEnv}) :
        \E r \in {RunFirmScoring(w)} : Receive(w, r)

\* The answers of the LLM to the composition: an object, an object with a
\* reasoning longer than the notes, an object of nulls, an object whose
\* reasoning is one blank, and prose around an object.
OutreachAnswers ==
    {Answer("bare", "{valid}"), Answer("bare", "{odd}"), Answer("bare", "{nulls}"),
     Answer("bare", "{blank}"), Answer("prose", "{valid}")}

NextOutreach ==
    \/ LifeFirmScoringReceive
    \/ FirmScoringAsk({Answer("bare", "{valid}")})
    \/ FirmScoringUpdate
    \/ OutreachReceive(OutreachRequests, Envs)
    \/ OutreachLoad(StoreAnswers)
    \/ OutreachCompose(OutreachAnswers)
    \/ OutreachMail(MailAnswers)
    \/ OutreachRetrieve(StoreAnswers)
    \/ OutreachUpdate(StoreAnswers)
    \/ Respond

SpecOutreach == InitOneFirm /\ [][NextOutreach]_vars

-----------------------------------------------------------------------------
(* The Contact pages: person callbacks, enrichment requests, firm callbacks *)

PersonEnrichedRequests ==
    {[payload |-> p] : p \in
        {PersonPayload(FALSE, Missing, Missing, Missing, Missing, Missing),
         PersonPayload(TRUE, Missing, Missing, Missing, Missing, Missing),
         PersonPayload(TRUE, <<"Ann">>, Acme, <<"ann@acme.co">>, <<"CIO">>, <<"in/ann">>),
         PersonPayload(TRUE, <<"Ann">>, Acme, None, Missing, << >>),
         PersonPayload(TRUE, None, Acme, << >>, <<"CIO">>, Missing)}}

\* Lines 292-310: the callback is received and the Contact built.
PersonEnrichedReceive ==
    out = Idle /\ \E w \in Arriving("person_enriched", PersonEnrichedRequests, {NoEnv}) :
        \E r \in {RunPersonEnriched(w)} : Receive(w, r)

\* Lines 312-322: the create of the Contact, and the response.
PersonEnrichedCreate ==
    out = Idle /\ \E w \in Waiting("person_enriched", "store", "create", 1), o \in StoreAnswers :
        \E w1 \in {Answered(w, w.call, o)} : \E r \in {RunPersonEnriched(w1)} : Returns(w, w1, r)

EnrichPersonRequests ==
    {[payload |-> p] : p \in
        {EnrichPayload(FALSE, Missing, Missing, Missing, Missing),
         EnrichPayload(TRUE, ContactId(1), <<"Ann">>, Acme, <<"in/ann">>),
         EnrichPayload(TRUE, ContactId(2), <<"Ann">>, Missing, Missing),
         EnrichPayload(TRUE, Missing, <<"Ann">>, Acme, Missing),
         EnrichPayload(TRUE, ContactId(1), << >>, Acme, Missing)}}

\* Lines 222-234: the request is received.
EnrichPersonReceive ==
    out = Idle /\ \E w \in Arriving("enrich_person", EnrichPersonRequests, {NoEnv}) :
        \E r \in {RunEnrichPerson(w)} : Receive(w, r)

\* Lines 236-238 and 246-247: the dispatch to the relay.
EnrichPersonSend ==
    out = Idle /\ \E w \in Waiting("enrich_person", "relay", "person", 1), o \in RelayAnswers :
        \E w1 \in {Answered(w, w.call, o)} : \E r \in {RunEnrichPerson(w1)} : Returns(w, w1, r)

\* Lines 239-245: the update of the Contact, and the response.
EnrichPersonUpdate ==
    out = Idle /\ \E w \in Waiting("enrich_person", "store", "update", 1), o \in StoreAnswers :
        \E w1 \in {Answered(w, w.call, o)} : \E r \in {RunEnrichPerson(w1)} : Returns(w, w1, r)

NextContacts ==
    \/ PersonEnrichedReceive
    \/ PersonEnrichedCreate
    \/ EnrichPersonReceive
    \/ EnrichPersonSend
    \/ EnrichPersonUpdate
    \/ FirmEnrichedReceive
    \/ FirmEnrichedUpdate
    \/ FirmEnrichedCreate
    \/ Respond

SpecContacts == InitOneFirm /\ [][NextContacts]_vars

-----------------------------------------------------------------------------
(* The functions taken alone: normalize_fit, generate_outreach_for_firm,    *)
(* classify_response_tone and extract_domain on inputs drawn from bounded   *)
(* sets.  fn is the function called, arg its input and res its result once  *)
(* it has returned.                                                          *)

\* Most fragments a fit value is made of.
MaxFragments == 2

FitFragments ==
    {<<" ">>, <<"\n">>, cStrong, tStrong, <<"S","T","R","O","N","G">>, cModerate, tModerate,
     cWeak, tWeak, cFit, <<" ","F","i","t">>, tNA, <<"w","h","a","t","e","v","e","r">>}

RECURSIVE FitTexts(_)
FitTexts(n) ==
    IF n = 0 THEN {<< >>}
    ELSE FitTexts(n - 1) \cup {t \o f : t \in FitTexts(n - 1), f \in FitFragments}

\* The values the LLM can give for a fit: a string, null, or no value.
FitInputs == FitTexts(MaxFragments) \cup {None, Missing}

Pending == [done |-> FALSE, value |-> "pending"]
Returned(value) == [done |-> TRUE, value |-> value]

NormalizeFit ==
    /\ fn = "normalize_fit"
    /\ ~res.done
    /\ res' = Returned(normalize_fit(arg))
    /\ UNCHANGED <<firm, contacts, entry, out, fn, arg, inflight, served>>

\* The request of a scoring trigger for the firm.
FitRequest ==
    [query_research |-> << >>,
     payload |-> ScoringPayload(TRUE, F1, Acme, wAcme, <<"<text 300>">>)]

\* A scoring trigger for the firm is received; the LLM will answer it with
\* an object that gives the value arg as the fit of each offering.
ScoreFit ==
    /\ fn = "normalize_fit"
    /\ out = Idle
    /\ \E w \in Arriving("firm_score", {FitRequest}, {NoEnv}) :
        \E r \in {RunFirmScoring(w)} : Receive(w, r)

\* The answer of the LLM to that trigger.
FitAnswers == {<<tok>> : tok \in FitTokens}

\* The firm details given to the outreach generator.
FirmData(firm_name) ==
    [firm_id |-> F1, firm_name |-> firm_name, website |-> wStored, plinian_fit |-> {},
     notes |-> None]

ComposeInputs ==
    {[firm_data |-> FirmData(n), has_key |-> k, llmOc |-> oc, text |-> t] :
        n \in {Acme, << >>, None, Missing}, k \in BOOLEAN, oc \in {"text"},
        t \in {Answer(shape, tok) : shape \in AnswerShapes, tok \in JsonTokens}}
    \cup {[firm_data |-> FirmData(n), has_key |-> k, llmOc |-> "raise", text |-> << >>] :
            n \in {Acme, << >>, None, Missing}, k \in BOOLEAN}

Compose ==
    /\ fn = "generate_outreach_for_firm"
    /\ ~res.done
    /\ res' = Returned(generate_outreach_for_firm(arg.firm_data, arg.has_key, arg.llmOc,
                                                  arg.text))
    /\ UNCHANGED <<firm, contacts, entry, out, fn, arg, inflight, served>>

\* Most phrases a reply body is made of.
MaxPhrases == 2

bNotInterested == <<"n","o","t"," ","i","n","t","e","r","e","s","t","e","d">>
bButSoundsGood == <<","," ","b","u","t"," ","s","o","u","n","d","s"," ","g","o","o","d">>
bReceived ==
    <<"R","e","c","e","i","v","e","d",","," ","w","i","l","l"," ",
      "c","i","r","c","l","e"," ","b","a","c","k",".">>

TonePhrases ==
    {<<"Y","e","s">>, <<"N","O","T"," ","I","N","T","E","R","E","S","T","E","D">>,
     bNotInterested, bButSoundsGood, bReceived, <<"P","a","s","s">>,
     <<"T","h","a","n","k","s">>, <<"N","o","t"," ","a">>, cFit, <<" ">>}

RECURSIVE ToneTexts(_)
ToneTexts(n) ==
    IF n = 0 THEN {<< >>}
    ELSE ToneTexts(n - 1) \cup {t \o f : t \in ToneTexts(n - 1), f \in TonePhrases}

\* The reply bodies given to classify_response_tone.
ToneInputs == ToneTexts(MaxPhrases)

ClassifyTone ==
    /\ fn = "classify_response_tone"
    /\ ~res.done
    /\ res' = Returned(classify_response_tone(arg))
    /\ UNCHANGED <<firm, contacts, entry, out, fn, arg, inflight, served>>

\* Most fragments a url is made of.
MaxUrlParts == 3

ExampleUrl ==
    <<"h","t","t","p","s",":","/","/","w","w","w",".",
      "E","x","a","m","p","l","e",".","c","o","m","/","p","a","t","h">>

UrlParts ==
    {cHttps, cHttp, <<"H","T","T","P",":","/","/">>, cWww, <<"w","w">>, <<"w",".">>,
     <<"E","x","a","m","p","l","e",".","c","o","m">>, <<"/","p","a","t","h">>}

RECURSIVE UrlTexts(_)
UrlTexts(n) ==
    IF n = 0 THEN {<< >>}
    ELSE UrlTexts(n - 1) \cup {t \o f : t \in UrlTexts(n - 1), f \in UrlParts}

\* The urls given to extract_domain: a string, or None.
UrlInputs == UrlTexts(MaxUrlParts) \cup {ExampleUrl, None}

ExtractDomain ==
    /\ fn = "extract_domain"
    /\ ~res.done
    /\ res' = Returned(extract_domain(arg))
    /\ UNCHANGED <<firm, contacts, entry, out, fn, arg, inflight, served>>

\* The outcomes of the API call of generate, each with its answers.
GenerateInputs ==
    {[llmOc |-> llmOc, text |-> text] : llmOc \in LlmOutcomes, text \in Answers}
    \ {[llmOc |-> "raise", text |-> text] : text \in Answers \ {<< >>}}

Generate ==
    /\ fn = "generate"
    /\ ~res.done
    /\ res' = Returned(generate(arg.llmOc, arg.text))
    /\ UNCHANGED <<firm, contacts, entry, out, fn, arg, inflight, served>>

InitFunctions ==
    /\ firm = NewFirmPage(Acme, wStored, FALSE)
    /\ contacts = << >>
    /\ entry = NewEntry
    /\ out = Idle
    /\ res = Pending
    /\ inflight = EmptyBag
    /\ served = 0
    /\ \/ fn = "normalize_fit" /\ arg \in FitInputs
       \/ fn = "generate_outreach_for_firm" /\ arg \in ComposeInputs
       \/ fn = "classify_response_tone" /\ arg \in ToneInputs
       \/ fn = "extract_domain" /\ arg \in UrlInputs
       \/ fn = "generate" /\ arg \in GenerateInputs

NextFunctions ==
    \/ NormalizeFit
    \/ ScoreFit
    \/ FirmScoringAsk(FitAnswers)
    \/ FirmScoringUpdate
    \/ Compose
    \/ ClassifyTone
    \/ ExtractDomain
    \/ Generate
    \/ Respond

SpecFunctions == InitFunctions /\ [][NextFunctions]_vars

-----------------------------------------------------------------------------
(* Replies on the thread of the Outreach Log entry *)

\* The received_date of an event: a timestamp, a date in words, a number.
dStamp == <<"2","0","2","0","-","0","1","-","0","2","T","0","3",":","0","4",":","0","5">>
dWords == <<"J","a","n"," ","2">>
sLp == <<"lp@acme.com">>

bYes      == <<"Y","e","s",","," ","l","e","t","'","s"," ","t","a","l","k">>
bNo       == <<"N","o","t"," ","i","n","t","e","r","e","s","t","e","d">>
bThanks   == <<"T","h","a","n","k","s">>
bLong     == <<"<text 150>", " ", "c","a","l","l", " ", "<text 300>">>

ReplyRequests ==
    {[payload |-> p] : p \in
        {ReplyPayload(FALSE, Missing, Missing, Missing, Missing),
         ReplyPayload(TRUE, Thread1, sLp, Missing, dStamp),
         ReplyPayload(TRUE, << >>, sLp, bYes, dStamp),
         ReplyPayload(TRUE, <<"thread-2">>, sLp, bYes, Number)}
        \cup {ReplyPayload(TRUE, Thread1, Missing, b, Missing) :
                b \in {bYes, bNo, bThanks, bLong}}
        \cup {ReplyPayload(TRUE, Thread1, sLp, b, date) :
                b \in {bYes, bNo}, date \in {dStamp, dWords, Number, None, << >>}}}


\* Lines 577-600 and 189-195: the reply is received.
EmailReplyReceive(requests) ==
    out = Idle /\ \E w \in Arriving("email_reply", requests, {NoEnv}) :
        \E r \in {RunEmailReply(w)} : Receive(w, r)

\* Line 100 (called at line 201): the log is searched for the thread.
EmailReplySearch(outcomes) ==
    out = Idle /\ \E w \in Waiting("email_reply", "store", "query", 1), o \in outcomes :
        \E w1 \in {Answered(w, w.call, o)} : \E r \in {RunEmailReply(w1)} : Returns(w, w1, r)

\* Line 163: the entry is retrieved.
EmailReplyRetrieve(outcomes) ==
    out = Idle /\ \E w \in Waiting("email_reply", "store", "get", 1), o \in outcomes :
        \E w1 \in {Answered(w, w.call, o)} : \E r \in {RunEmailReply(w1)} : Returns(w, w1, r)

\* Lines 164-181: the notes are built from the retrieved entry and written.
EmailReplyUpdate(outcomes) ==
    out = Idle /\ \E w \in Waiting("email_reply", "store", "update", 1), o \in outcomes :
        \E w1 \in {Answered(w, w.call, o)} : \E r \in {RunEmailReply(w1)} : Returns(w, w1, r)

NextReply ==
    \/ EmailReplyReceive(ReplyRequests)
    \/ EmailReplySearch(StoreAnswers)
    \/ EmailReplyRetrieve(StoreAnswers)
    \/ EmailReplyUpdate(StoreAnswers)
    \/ Respond

SpecReply == InitOneFirm /\ [][NextReply]_vars

-----------------------------------------------------------------------------
(* The life of one firm: new-firm events, firm callbacks, scoring triggers  *)
(* and outreach triggers, in any order                                       *)

\* The events of the firm: with and without a website, restart or not.
LifeNewFirmRequests ==
    {[secret_set |-> FALSE, signature_matches |-> FALSE,
      payload |-> NewFirmPayload(TRUE, "nested", F1, Acme, url, checkbox)] :
        url \in {wAcme, None}, checkbox \in BOOLEAN}

LifeNewFirmReceive ==
    out = Idle /\ \E w \in Arriving("new_firm", LifeNewFirmRequests, {NoEnv}) :
        \E r \in {RunNewFirm(w)} : Receive(w, r)

\* The answers of the LLM to the scoring of the firm: an object, an object
\* without fields, prose around an object, and a value that is no object.
LifeAnswers ==
    {Answer("fenced", "{valid}"), Answer("bare", "{empty}"), Answer("prose", "{valid}")}
    \cup {Answer("bare", tok) : tok \in NonObjectTokens}

\* The outreach triggers of the firm.
LifeOutreachRequests == {[payload |-> OutreachPayload(TRUE, F1, Missing)]}

\* The mail service is set up; the draft is the LLM's, or the fixed
\* template when the credential is missing.
LifeEnvs == {[has_key |-> k, gmail |-> TRUE] : k \in BOOLEAN}

NextLifecycle ==
    \/ LifeNewFirmReceive
    \/ NewFirmLookup
    \/ NewFirmSend
    \/ NewFirmUpdate
    \/ LifeFirmEnrichedReceive
    \/ FirmEnrichedUpdate
    \/ LifeFirmScoringReceive
    \/ FirmScoringAsk(LifeAnswers)
    \/ FirmScoringUpdate
    \/ OutreachReceive(LifeOutreachRequests, LifeEnvs)
    \/ OutreachLoad(Accepted)
    \/ OutreachCompose({Answer("bare", "{valid}")})
    \/ OutreachMail({Made("mail", "any", "ok", << >>)})
    \/ OutreachRetrieve(Accepted)
    \/ OutreachUpdate(StoreAnswers)
    \/ Respond

SpecLifecycle == Init /\ [][NextLifecycle]_vars

-----------------------------------------------------------------------------
(* Concurrent triggers on one record: outreach triggers on the firm and     *)
(* replies on the thread of the Outreach Log entry, whose record store      *)
(* answers every read                                                        *)

RaceReplyRequests ==
    {[payload |-> ReplyPayload(TRUE, Thread1, sLp, b, dStamp)] : b \in {bYes, bNo, bLong}}

RaceAnswers == {Answer("bare", "{valid}"), Answer("bare", "{odd}")}

NextRace ==
    \/ OutreachReceive(LifeOutreachRequests, Envs)
    \/ OutreachLoad(Accepted)
    \/ OutreachCompose(RaceAnswers)
    \/ OutreachMail(MailAnswers)
    \/ OutreachRetrieve(Accepted)
    \/ OutreachUpdate(StoreAnswers)
    \/ EmailReplyReceive(RaceReplyRequests)
    \/ EmailReplySearch(Accepted)
    \/ EmailReplyRetrieve(Accepted)
    \/ EmailReplyUpdate(StoreAnswers)
    \/ Respond

SpecRace == InitOneFirm /\ [][NextRace]_vars

-----------------------------------------------------------------------------
(* Properties of the new-firm handler, checked under Spec *)

\* The relay call of a trace answered with one of the accepted codes.
Dispatched(o) ==
    \E i \in 1..Len(o.calls) :
        o.calls[i].svc = "relay" /\ o.calls[i].result \in {"200", "201", "202"}

\* C1: in the new-firm handler the restart flag is cleared only after the
\* relay dispatch of that event returned success, never before it: every
\* record write of the handler follows an accepted relay call in its trace,
\* and when the dispatch fails (non-2xx, unconfigured, unreachable) the
\* restart flag and the status of the firm are what they were before.
C1_RestartClearedOnlyAfterDispatch ==
    [][out'.handler = "new_firm" =>
        /\ \A i \in 1..Len(out'.calls) :
              (out'.calls[i].svc = "store" /\ out'.calls[i].op = "update")
              => \E j \in 1..(i - 1) :
                    /\ out'.calls[j].svc = "relay"
                    /\ out'.calls[j].result \in {"200", "201", "202"}
        /\ ~Dispatched(out') =>
              /\ firm'["Restart Enrichment"] = firm["Restart Enrichment"]
              /\ firm'["Research Status"] = firm["Research Status"]
        /\ (firm["Restart Enrichment"] /\ ~firm'["Restart Enrichment"])
              => Dispatched(out')]_vars

\* A restart event whose dispatch failed has been processed, and the flag
\* of the firm is still set.
C1_Witness ==
    /\ out.handler = "new_firm"
    /\ out.req.payload.checkbox
    /\ CallsTo(out, "relay") # << >>
    /\ ~Dispatched(out)
    /\ firm["Restart Enrichment"]
    /\ firm["Research Status"] = "New"

\* The website a new-firm event resolves: the one of the event, or the
\* stored one that the handler fetched.
ResolvedWebsite(o, page) ==
    LET f == new_firm_fields(o.req.payload)
        got == SelectSeq(o.calls, LAMBDA c : c.svc = "store" /\ c.op = "get")
    IN  IF Truthy(f.website) THEN f.website
        ELSE IF got # << >> /\ got[1].result = "ok" THEN page["Website"]
        ELSE f.website

\* The handler came as far as resolving a website to a domain.
ResolvesDomain(o, page) ==
    /\ o.handler = "new_firm"
    /\ verify_webhook_signature(o.req.secret_set, o.req.signature_matches)
    /\ o.req.payload.has_body
    /\ Truthy(new_firm_fields(o.req.payload).page_id)
    /\ \A i \in 1..Len(o.calls) :
          (o.calls[i].svc = "store" /\ o.calls[i].op = "get") => o.calls[i].result # "raise"
    /\ Truthy(extract_domain(ResolvedWebsite(o, page)))

\* C5: for a new-firm event whose website resolves to a domain, the relay
\* dispatch is attempted with domain = extract_domain(website); if the
\* dispatch succeeded the status Researching is written to the firm, and if
\* it failed the handler makes no record write of any kind.
C5_DispatchWithDomainThenResearching ==
    ResolvesDomain(out, firm) =>
        LET relay == CallsTo(out, "relay") IN
        /\ Len(relay) = 1
        /\ relay[1].args.domain = extract_domain(ResolvedWebsite(out, firm))
        /\ Dispatched(out) =>
              /\ Len(Writes(out)) = 1
              /\ "Research Status" \in DOMAIN Writes(out)[1].args
              /\ Writes(out)[1].args["Research Status"] = "Researching"
              /\ Writes(out)[1].result = "ok" => firm["Research Status"] = "Researching"
        /\ ~Dispatched(out) => Writes(out) = << >>

\* An event whose website came from the stored page was dispatched with the
\* domain of that website, and the status written.
C5_Witness ==
    /\ ResolvesDomain(out, firm)
    /\ ~Truthy(new_firm_fields(out.req.payload).website)
    /\ Dispatched(out)
    /\ CallsTo(out, "relay")[1].args.domain = <<"a","c","m","e",".","c","o">>
    /\ firm["Research Status"] = "Researching"

\* The handler came as far as resolving a website, and the website of the
\* event, or else the stored one, gives no domain.
NoDomainResolved(o, page) ==
    /\ o.handler = "new_firm"
    /\ verify_webhook_signature(o.req.secret_set, o.req.signature_matches)
    /\ o.req.payload.has_body
    /\ Truthy(new_firm_fields(o.req.payload).page_id)
    /\ ~Truthy(extract_domain(ResolvedWebsite(o, page)))

\* The read of the stored page raised an exception.
LookupRaised(o) ==
    \E i \in 1..Len(o.calls) :
        o.calls[i].svc = "store" /\ o.calls[i].op = "get" /\ o.calls[i].result = "raise"

\* C14: a new-firm event for which no domain can be resolved (no website in
\* the event, and none recovered from the stored record) is rejected with an
\* error outcome, here code 400 with an error field, and causes no relay
\* dispatch and no record write: the firm, its status and its restart flag
\* are what they were.  When the read of the stored record itself raises,
\* there is likewise no dispatch and no write.
C14_NoDomainRejectedWithoutEffect ==
    [][NoDomainResolved(out', firm) =>
          /\ CallsTo(out', "relay") = << >>
          /\ Writes(out') = << >>
          /\ firm' = firm
          /\ ~LookupRaised(out') =>
                /\ out'.kind = "json"
                /\ out'.code = 400
                /\ "error" \in DOMAIN out'.body]_vars

\* A restart event without a website, for a firm whose stored record has no
\* website either, was rejected after the record was read; the flag is set.
C14_Witness ==
    /\ NoDomainResolved(out, firm)
    /\ out.req.payload.checkbox
    /\ ~Truthy(new_firm_fields(out.req.payload).website)
    /\ Len(out.calls) = 1
    /\ out.calls[1].op = "get" /\ out.calls[1].result = "ok"
    /\ out.code = 400
    /\ firm["Research Status"] = "New"
    /\ firm["Restart Enrichment"]

-----------------------------------------------------------------------------
(* Properties of the scoring trigger, checked under SpecScoring *)

\* A scoring trigger that reported success.
ScoringSucceeded(o) ==
    o.handler = "firm_score" /\ o.kind = "json" /\ o.code = 200

\* The object the LLM answered a scoring trigger with.
AnsweredScores(o) ==
    Scores(strip_fence(CallsTo(o, "llm")[1].result.text).text[1])

\* C3 as the specification states it: whenever handle_firm_scoring reports
\* success, the scoring result it returns holds for each of the six
\* offerings a fit in {Strong, Moderate, Weak, N/A} and a non-null
\* rationale string.  The handler returns the object of the LLM as it
\* parsed it (lines 633-637), so the property fails for an object that
\* lacks a field, or holds null or a word outside the taxonomy.
C3_ReturnedScoresComplete ==
    ScoringSucceeded(out) =>
        \A i \in 1..6 :
            /\ out.body.scores[FitField[i]] \in FitText
            /\ out.body.scores[RatField[i]] \notin {None, Missing}

\* The LLM call of a trace failed, or its answer is no structured object.
ScoringAnswerUnusable(o) ==
    /\ o.handler = "firm_score"
    /\ CallsTo(o, "llm") # << >>
    /\ LET r == CallsTo(o, "llm")[1].result IN
          \/ r.oc = "raise"
          \/ strip_fence(r.text).raised
          \/ ~IsObject(strip_fence(r.text).text)

\* C7: if the LLM call of a scoring trigger fails, or its response cannot
\* be parsed as a structured object, handle_firm_scoring returns a failed
\* outcome and performs no record write: the Firm record is as before.
C7_FailedScoringWritesNothing ==
    [][ScoringAnswerUnusable(out') =>
          /\ out'.kind = "json"
          /\ out'.code = 500
          /\ DOMAIN out'.body = {"error"}
          /\ Writes(out') = << >>
          /\ firm' = firm]_vars

\* A trigger whose answer was prose around the object has failed, and the
\* firm is still New and unscored.
C7_Witness ==
    /\ ScoringAnswerUnusable(out)
    /\ CallsTo(out, "llm")[1].result.text = Answer("prose", "{valid}")
    /\ out.code = 500
    /\ firm["Research Status"] = "New"
    /\ \A p \in FitProps : firm[p] = ""

\* C15 as the specification states it: a scoring trigger that carries no
\* record id (notion_page_id missing) is rejected immediately with an error
\* outcome and has no side effects: the LLM is not called and no record
\* update is attempted.
C15_ScoringWithoutIdRejected ==
    (out.handler = "firm_score" /\ ~Truthy(Get(out.req.payload, "notion_page_id"))) =>
        /\ out.code >= 400
        /\ CallsTo(out, "llm") = << >>
        /\ Writes(out) = << >>

\* C20 as the specification states it: after a successful scoring, the
\* 'best matches' tag set of the firm is written and equals exactly the set
\* of offerings whose normalized fit is Strong.
C20_BestMatchesAreStrongOfferings ==
    (ScoringSucceeded(out) /\ Writes(out) # << >> /\ Writes(out)[1].result = "ok") =>
        /\ "Best Matches" \in DOMAIN Writes(out)[1].args
        /\ firm["Best Matches"] = {Offerings[i] : i \in {j \in 1..6 : firm[FitProp[j]] = "Strong"}}

\* C21 as the specification states it: each scoring trigger makes two LLM
\* calls in sequence: first the independent research call, given only firm
\* name and website, then the scoring call, whose prompt holds the output
\* of the research call combined with the enrichment text.
C21_ResearchCallThenScoringCall ==
    (out.handler = "firm_score" /\ CallsTo(out, "llm") # << >>) =>
        LET llm == CallsTo(out, "llm") IN
        /\ Len(llm) = 2
        /\ llm[1].op = "research"
        /\ llm[2].op = "scoring"

\* C25 as the specification states it: a successful scoring trigger writes,
\* in a single record update, the six per-offering fit fields, the
\* qualification notes and the firm overview, and sets the status to
\* Qualified.
C25_ScoringWritesFitsNotesOverview ==
    ScoringSucceeded(out) =>
        /\ Len(Writes(out)) = 1
        /\ FitProps \cup {"Qualification Notes", "Firm Overview", "Research Status"}
              \subseteq DOMAIN Writes(out)[1].args
        /\ Writes(out)[1].args["Research Status"] = "Qualified"

-----------------------------------------------------------------------------
(* Properties of the outreach workflow, checked under SpecOutreach *)

\* The mail draft of an outreach trigger was created.
DraftCreated(o) ==
    \E i \in 1..Len(o.calls) : o.calls[i].svc = "mail" /\ o.calls[i].result = "ok"

\* The firm was loaded, so that the workflow came to the mail step.
FirmLoaded(o) ==
    /\ o.handler = "outreach"
    /\ o.calls # << >>
    /\ o.calls[1].svc = "store" /\ o.calls[1].op = "get" /\ o.calls[1].result = "ok"

\* C9 as the specification states it: when the record-store write of the
\* draft metadata fails after the mail draft was created, the outcome is
\* not a total failure: it reports the draft reference.
C9_DraftReportedWhenWriteFails ==
    (/\ FirmLoaded(out)
     /\ DraftCreated(out)
     /\ Writes(out) # << >>
     /\ Writes(out)[1].result # "ok")
    => /\ out.body.status # "error"
       /\ "gmail_draft_url" \in DOMAIN out.body
       /\ out.body.gmail_draft_url = DraftUrl

\* C10 as the specification states it: if the mail service is unavailable
\* or the draft creation fails, and the record store works, the outreach
\* metadata is still written and the handler returns status ok with
\* gmail_success false.
C10_CompletesWithoutDraft ==
    (/\ FirmLoaded(out)
     /\ ~DraftCreated(out)
     /\ \A i \in 1..Len(out.calls) : out.calls[i].svc = "store" => out.calls[i].result = "ok")
    => /\ out.code = 200
       /\ out.body.status = "ok"
       /\ out.body.gmail_success = FALSE
       /\ Writes(out) # << >>
       /\ firm["Last Outreach Run"] = Today

\* The properties of a Firm that hold its research state.
ResearchState == FitProps \cup {"Research Status", "Restart Enrichment"}

\* C22: an outreach trigger never changes the research status of a firm:
\* for every outcome of composition, draft creation and record update, the
\* Research Status, the six fit fields and the restart flag of the Firm are
\* the same after each step of the trigger as before it, and no update that
\* the trigger issues names one of them.
C22_OutreachKeepsResearchState ==
    [][/\ \A w \in InFlight("outreach") :
             CopiesIn(w, inflight') < CopiesIn(w, inflight)
             => \A p \in ResearchState : firm'[p] = firm[p]
       /\ out'.handler = "outreach" =>
             /\ \A p \in ResearchState : firm'[p] = firm[p]
             /\ \A i \in 1..Len(Writes(out')) :
                   DOMAIN Writes(out')[i].args \cap ResearchState = {}]_vars

\* An outreach trigger on a scored firm wrote its metadata, and the firm is
\* still Qualified with its fits.
C22_Witness ==
    /\ out.handler = "outreach"
    /\ out.code = 200
    /\ Writes(out) # << >>
    /\ Writes(out)[1].result = "ok"
    /\ firm["Relationship Stage"] = "Initial Outreach"
    /\ firm["Research Status"] = "Qualified"
    /\ firm["StoneRiver Fit"] = "Strong"

\* The update of a trigger that the record store accepted.
Written(o) == Writes(o) # << >> /\ Writes(o)[1].result = "ok"

\* The notes are those of a scoring, possibly with entries after them.
ScoredNotes(page) == StartsWith(page["Qualification Notes"], <<"Best Match: ">>)

\* The reasoning of the outreach a trigger composed: that of the object the
\* LLM answered, or that of the fixed template.
ComposedReasoning(o) ==
    LET asked == CallsTo(o, "llm")
        result == generate(asked[1].result.oc, asked[1].result.text)
    IN  IF asked # << >> /\ result.success THEN result.reasoning
        ELSE <<"Fallback template used due to LLM error">>

\* The invocation leaves the handlers in this step.
Ends(w) == CopiesIn(w, inflight') < CopiesIn(w, inflight) /\ out' # Idle /\ out = Idle

\* The notes of the Firm as the outreach trigger retrieved them (line 451).
RetrievedNotes(w) == w.seen[2]["Qualification Notes"]

\* C28: a successful scoring replaces the Qualification Notes of the firm
\* as a whole, and an outreach trigger appends to them.  After a scoring
\* whose write was accepted the notes are the scoring text cut to 2000
\* characters and hold no outreach entry, whatever they held before; after
\* an outreach trigger that retrieved the notes of a scoring and writes the
\* notes, they are those notes followed by a blank line and the entry
\* '[Outreach <date>] <reasoning>' without the whitespace it ends with, cut
\* to 2000 characters.
C28_ScoringReplacesOutreachAppends ==
    [][/\ (ScoringSucceeded(out') /\ Written(out')) =>
             /\ firm'["Qualification Notes"]
                    = Cut(rationale(AnsweredScores(out')), NotesLimit)
             /\ OutreachNotes(firm') = 0
       /\ \A w \in InFlight("outreach") :
             (/\ Ends(w)
              /\ Written(out')
              /\ "Qualification Notes" \in DOMAIN Writes(out')[1].args
              /\ ScoredNotes(w.seen[2])) =>
                LET entered == <<"[Outreach ">> \o Today \o <<"] ">> \o ComposedReasoning(out')
                IN  firm'["Qualification Notes"]
                       = Cut(RetrievedNotes(w) \o <<"\n\n">> \o RStrip(entered), NotesLimit)]_vars

\* A scoring after an outreach trigger that had written its entry after a
\* scoring: the notes are the scoring text, without an outreach entry.
C28_Witness ==
    /\ ScoringSucceeded(out)
    /\ Written(out)
    /\ firm["Last Outreach Run"] = Today
    /\ firm["Latest Outreach Client"] = <<"General">>
    /\ ScoredNotes(firm)
    /\ OutreachNotes(firm) = 0

\* C29 as the specification states it: the Outreach Draft URL of a Firm is
\* written by an outreach trigger only when a mail draft was created in that
\* trigger; when the mail service is not configured or the draft creation
\* fails, the field keeps its previous value.
C29_DraftUrlOnlyForCreatedDraft ==
    [][(out'.handler = "outreach" /\ ~DraftCreated(out')) =>
          firm'["Outreach Draft URL"] = firm["Outreach Draft URL"]]_vars

-----------------------------------------------------------------------------
(* Properties of the functions, checked under SpecFunctions *)

\* C2 as the specification states it: for any firm input and any outcome of
\* the LLM step (provider error, unparsable text, or a parsed object with
\* missing or empty fields), generate_outreach_for_firm returns a draft with
\* success = true, a non-empty subject and a non-empty body.
C2_ComposeAlwaysGivesDraft ==
    (fn = "generate_outreach_for_firm" /\ res.done) =>
        /\ res.value.success
        /\ Truthy(res.value.subject)
        /\ Truthy(res.value.body)

\* C4: normalize_fit is total: for every LLM value (a string, empty, missing
\* or null) its result is one of Strong, Moderate, Weak, N/A, with
\* 'strong fit' giving Strong and '' and 'whatever' giving N/A; hence every
\* fit field that scoring writes to a Firm record is one of the four values,
\* never blank and never the LLM text.
C4_NormalizeFitTotal ==
    /\ normalize_fit(cStrong \o cFit) = "Strong"
    /\ normalize_fit(<< >>) = "N/A"
    /\ normalize_fit(<<"w","h","a","t","e","v","e","r">>) = "N/A"
    /\ (fn = "normalize_fit" /\ res.done) => res.value \in FitEnum
    /\ out.handler = "firm_score" =>
          /\ \A i \in 1..Len(Writes(out)) :
                \A p \in FitProps : Writes(out)[i].args[p] \in FitEnum
          /\ (out.code = 200 /\ Writes(out)[1].result = "ok") =>
                \A p \in FitProps : firm[p] \in FitEnum

\* normalize_fit returned N/A for 'whatever fit', and a scoring trigger
\* whose answer gave that value as the fit of each offering wrote N/A to the
\* six fit fields of the firm.
C4_Witness ==
    /\ fn = "normalize_fit"
    /\ arg = <<"w","h","a","t","e","v","e","r">> \o cFit
    /\ res.done
    /\ res.value = "N/A"
    /\ out.handler = "firm_score"
    /\ out.code = 200
    /\ CallsTo(out, "llm")[1].result.text \in FitAnswers
    /\ Writes(out)[1].result = "ok"
    /\ \A p \in FitProps : firm[p] = "N/A"

\* str.upper(), on the letters A-Z.
Upper(s) ==
    [i \in 1..Len(s) |->
        IF \E j \in 1..Len(LowerChars) : LowerChars[j] = s[i]
        THEN UpperChars[CHOOSE j \in 1..Len(LowerChars) : LowerChars[j] = s[i]]
        ELSE s[i]]

\* The lower-cased body contains one of the keywords as a substring.
Mentions(body, keywords) == \E k \in keywords : Contains(Lower(body), k)

\* C11: classify_response_tone(body) is Negative whenever the lower-cased
\* body contains a negative keyword, also when it contains positive ones
\* ('not interested, but sounds good'); Positive when it contains a positive
\* keyword and no negative one; Neutral when it contains neither
\* ('Received, will circle back.'); and the result is the same for the body
\* in upper case and in lower case.
C11_NegativeKeywordWins ==
    /\ classify_response_tone(bNotInterested \o bButSoundsGood) = "Responded - Negative"
    /\ classify_response_tone(bReceived) = "Responded - Neutral"
    /\ (fn = "classify_response_tone" /\ res.done) =>
          /\ Mentions(arg, negative_keywords) => res.value = "Responded - Negative"
          /\ (Mentions(arg, positive_keywords) /\ ~Mentions(arg, negative_keywords))
                => res.value = "Responded - Positive"
          /\ (~Mentions(arg, positive_keywords) /\ ~Mentions(arg, negative_keywords))
                => res.value = "Responded - Neutral"
          /\ classify_response_tone(Upper(arg)) = res.value
          /\ classify_response_tone(Lower(arg)) = res.value

\* The body 'NOT INTERESTED, but sounds good', which holds one negative and
\* two positive keywords, was classified Negative.
C11_Witness ==
    /\ fn = "classify_response_tone"
    /\ res.done
    /\ arg = Upper(bNotInterested) \o bButSoundsGood
    /\ Mentions(arg, positive_keywords)
    /\ res.value = "Responded - Negative"

\* The url as the specification derives the domain from it: lower-cased,
\* without its leading protocol, without a leading 'www.', and up to the
\* first '/' of what remains.
WithoutLeadingPrefixes(url) ==
    LET l == Lower(url)
        a == IF StartsWith(l, cHttps) THEN Drop(l, Len(cHttps))
             ELSE IF StartsWith(l, cHttp) THEN Drop(l, Len(cHttp))
             ELSE l
        b == IF StartsWith(a, cWww) THEN Drop(a, Len(cWww)) ELSE a
    IN  BeforeFirst(b, cSlash)

\* C12 as the specification states it: extract_domain is idempotent: for any
\* url (empty, scheme-only, with repeated or nested 'http://', 'https://' or
\* 'www.' fragments), extract_domain(extract_domain(url)) = extract_domain(url).
C12_ExtractDomainIdempotent ==
    (fn = "extract_domain" /\ res.done) => extract_domain(res.value) = res.value

\* C13 as the specification states it: extract_domain(url) is the lower-cased
\* url with only its leading protocol, a leading 'www.' and everything from
\* the first '/' of the remainder removed, the rest of the host left as it
\* is; extract_domain('https://www.Example.com/path') = 'example.com'.
C13_OnlyLeadingPrefixesRemoved ==
    /\ extract_domain(ExampleUrl) = <<"e","x","a","m","p","l","e",".","c","o","m">>
    /\ (fn = "extract_domain" /\ res.done /\ Truthy(arg)) =>
          res.value = WithoutLeadingPrefixes(arg)

\* The composition fails: the credential is missing when the generator is
\* built, the provider call raises, or the answer does not parse.
ComposeFails(a) ==
    \/ ~a.has_key
    \/ a.llmOc = "raise"
    \/ ~JsonParses(Strip(unfence(a.text)))

\* C17: on each of the three failure kinds of outreach composition (provider
\* error, unparsable answer, missing API credential) the result of
\* generate_outreach_for_firm is the fixed fallback draft: the subject
\* 'Plinian Strategies - Introduction', the template body with the firm name
\* in it, primary_client General, no secondary clients, success true and
\* error null; any two failures for the same firm name give the same draft.
C17_FailureGivesFixedFallback ==
    (fn = "generate_outreach_for_firm" /\ res.done /\ ComposeFails(arg)) =>
        LET firm_name == GetD(arg.firm_data, "firm_name", <<"Unknown Firm">>) IN
        /\ res.value.subject = <<"Plinian Strategies - Introduction">>
        /\ res.value.body = <<"<fallback body, before the firm name>">> \o Render(firm_name)
                                \o <<"<fallback body, after the firm name>">>
        /\ res.value.primary_client = <<"General">>
        /\ res.value.secondary_clients = << >>
        /\ res.value.success
        /\ res.value.error = None
        /\ \A a \in ComposeInputs :
              (ComposeFails(a) /\ a.firm_data.firm_name = arg.firm_data.firm_name)
              => generate_outreach_for_firm(a.firm_data, a.has_key, a.llmOc, a.text)
                    = res.value

\* With the credential set, an answer that is prose around the object gave
\* the fallback draft for Acme Capital.
C17_Witness ==
    /\ fn = "generate_outreach_for_firm"
    /\ res.done
    /\ arg.has_key
    /\ arg.llmOc = "text"
    /\ arg.text = Answer("prose", "{valid}")
    /\ arg.firm_data.firm_name = Acme
    /\ res.value.primary_client = <<"General">>
    /\ res.value.body = <<"<fallback body, before the firm name>", "Acme Capital",
                          "<fallback body, after the firm name>">>

\* C30: PlinianOutreachGenerator.generate never raises: for every outcome of
\* the LLM call it returns a result with all of subject, body,
\* primary_client, secondary_clients, reasoning, success and error.  success
\* is true only if the answer, after the code fence around it is removed,
\* parsed as a JSON object; on every failure success is false, error is a
\* non-empty message, and subject and body are empty.
C30_GenerateAlwaysReturnsAResult ==
    (fn = "generate" /\ res.done) =>
        LET r == res.value
            payload == Strip(unfence(arg.text))
        IN  /\ DOMAIN r = DraftKeys \cup {"success", "error"}
            /\ r.success \in BOOLEAN
            /\ r.success => /\ arg.llmOc = "text"
                            /\ JsonParses(payload)
                            /\ IsObject(payload)
            /\ ~r.success => /\ r.error # None
                             /\ TextLen(r.error) > 0
                             /\ r.subject = << >>
                             /\ r.body = << >>

\* The LLM answered a JSON list: generate returned a failure with a message.
C30_Witness ==
    /\ fn = "generate"
    /\ res.done
    /\ arg.llmOc = "text"
    /\ arg.text = Answer("bare", "[]")
    /\ ~res.value.success
    /\ res.value.error = <<"AttributeError">>
    /\ res.value.body = << >>

-----------------------------------------------------------------------------
(* Properties of the Contact pages, checked under SpecContacts *)

\* C6 as the specification states it: after any sequence of firm callbacks
\* and person callbacks the record store holds at most one Contact page per
\* (name, firm) pair.
C6_OneContactPerNameAndFirm ==
    \A i, j \in 1..Len(contacts) :
        (/\ contacts[i]["Name"] = contacts[j]["Name"]
         /\ contacts[i]["Company"] = contacts[j]["Company"]) => i = j

\* The create calls of a trace that the record store accepted.
Creates(o) ==
    SelectSeq(o.calls, LAMBDA c : c.svc = "store" /\ c.op = "create" /\ c.result = "ok")

\* The entries of the people list of a firm callback that carry a name.
NamedPeople(req) ==
    {i \in 1..Len(PeopleOf(req)) : Truthy(Get(Person(PeopleOf(req)[i]), "name"))}

\* C16 as the specification states it: a person-enrichment callback that
\* carries no name is rejected with an error outcome and creates or updates
\* no Contact record; likewise no Contact is created for a nameless entry of
\* the people list of a firm callback.
C16_NamelessCreatesNoContact ==
    /\ (/\ out.handler = "person_enriched"
        /\ out.req.payload.has_body
        /\ ~Truthy(Get(out.req.payload, "full_name")))
       => /\ out.code >= 400
          /\ Creates(out) = << >>
    /\ (out.handler = "firm_enriched" /\ out.req.payload.has_body)
       => Len(Creates(out)) <= Cardinality(NamedPeople(out.req))
    /\ \A i \in 1..Len(contacts) : Truthy(contacts[i]["Name"])

\* A person callback created a Contact.
PersonCreated(o) == o.handler = "person_enriched" /\ Creates(o) # << >>

\* C19: a Contact created by the person-enrichment callback has status
\* Qualified if and only if the callback carried a non-empty email, and
\* status New otherwise; the email field is written exactly in the Qualified
\* case, with the email of the callback.
C19_QualifiedIffEmail ==
    PersonCreated(out) =>
        LET email == Get(out.req.payload, "email")
            has_email == email \notin {None, << >>}
            written == Creates(out)[1].args
            contact == contacts[Len(contacts)]
        IN  /\ Len(Creates(out)) = 1
            /\ written["Status"] = IF has_email THEN "Qualified" ELSE "New"
            /\ ("Email" \in DOMAIN written) <=> has_email
            /\ has_email => written["Email"] = email
            /\ contact["Status"] = written["Status"]
            /\ contact["Email"] = IF has_email THEN email ELSE None

\* A callback with an email made a Qualified Contact with that email, and
\* then a callback with a null email made a New Contact without one.
C19_Witness ==
    /\ PersonCreated(out)
    /\ out.req.payload.email = None
    /\ Len(contacts) = 2
    /\ contacts[1]["Status"] = "Qualified" /\ contacts[1]["Email"] = <<"ann@acme.co">>
    /\ contacts[2]["Status"] = "New" /\ contacts[2]["Email"] = None

\* C26 as the specification states it: the outcome of a firm-enrichment
\* callback reports what was actually written: prospects_created equals
\* the number of Contact records the record store created during that
\* callback, and the status 'success' with firm_updated is reported only if
\* the firm update succeeded.
C26_FirmCallbackReportsWhatWasWritten ==
    (out.handler = "firm_enriched" /\ out.kind = "json" /\ out.code = 200) =>
        /\ out.body.prospects_created = Len(Creates(out))
        /\ \E i \in 1..Len(out.calls) :
              out.calls[i].op = "update" /\ out.calls[i].result = "ok"

-----------------------------------------------------------------------------
(* Properties of the reply workflow, checked under SpecReply *)

\* The reply names a thread and has a body, so that the log is searched.
ReplySearches(req) ==
    Truthy(Get(req.payload, "thread_id")) /\ Truthy(Get(req.payload, "email_body"))

\* The reply has a thread id and a body, and the search of the log gave the
\* entry of that thread.
ReplyResolved(o, page) ==
    /\ o.handler = "email_reply"
    /\ ReplySearches(o.req)
    /\ o.calls # << >>
    /\ o.calls[1].op = "query" /\ o.calls[1].result = "ok"
    /\ page["Gmail Thread ID"] = o.req.payload.thread_id

\* The reply has a thread id and a body, and the search gave no entry.
ReplyUnresolved(o, page) ==
    /\ o.handler = "email_reply"
    /\ ReplySearches(o.req)
    /\ ~ReplyResolved(o, page)

\* The notes of the entry as the reply retrieved them (line 163).
RetrievedReplies(w) == w.seen[Len(w.seen)]["Notes"]

\* Every call of a trace was answered without a failure.
AllCallsOk(o) == \A i \in 1..Len(o.calls) : o.calls[i].result = "ok"

\* C24 as the specification states it: a reply event whose thread id
\* resolves to an outreach-log entry updates that entry in one write, when
\* the record store answers every call: Response Status is the classified
\* tone, Outcome is Declined if and only if the tone is Negative and In
\* Discussion otherwise, and Notes is the notes the handler retrieved
\* followed by a dated excerpt of at most the first 200 characters of the
\* body.  A reply whose
\* thread id resolves to no entry returns not_found and writes nothing.
C24_ReplyUpdatesEntryInOneWrite ==
    [][/\ \A w \in InFlight("email_reply") :
             (Ends(w) /\ ReplyResolved(out', entry) /\ AllCallsOk(out')) =>
                LET body == out'.req.payload.email_body
                    tone == classify_response_tone(body)
                    excerpt == Cut(body, ExcerptLimit)
                    written == Writes(out')[1].args
                IN  /\ out'.body.status = "updated"
                    /\ Len(Writes(out')) = 1
                    /\ written["Response Status"] = tone
                    /\ written["Outcome"] = IF tone = "Responded - Negative"
                                            THEN "Declined" ELSE "In Discussion"
                    /\ (written["Outcome"] = "Declined") <=> Mentions(body, negative_keywords)
                    /\ TextLen(excerpt) <= ExcerptLimit
                    /\ written["Notes"] = RetrievedReplies(w)
                                             \o <<"\n\n", "[Response received ">>
                                             \o written["Response Date"] \o <<"]\n">>
                                             \o excerpt \o <<"...">>
                    /\ entry' = Patch(entry, written)
       /\ ReplyUnresolved(out', entry) =>
             /\ out'.body.status = "not_found"
             /\ Writes(out') = << >>
             /\ entry' = entry]_vars

-----------------------------------------------------------------------------
(* Properties of the life of a firm, checked under SpecLifecycle *)

\* The record writes of a trace that name the research status.
StatusWrites(o) ==
    SelectSeq(o.calls, LAMBDA c : /\ c.svc = "store"
                                  /\ c.op = "update"
                                  /\ "Research Status" \in DOMAIN c.args)

\* C23: the only research-status values this system writes to a Firm are
\* Researching and Qualified.  Researching is written only by a new-firm
\* event after its relay dispatch succeeded, and Qualified only by a firm
\* callback or by a scoring whose LLM response was parsed.  The status of a
\* firm changes only by such a write, so that it is always one of New,
\* Researching and Qualified, and no handler writes New.
C23_OnlyResearchingAndQualifiedWritten ==
    [][/\ \A i \in 1..Len(StatusWrites(out')) :
             LET status == StatusWrites(out')[i].args["Research Status"] IN
             \/ /\ status = "Researching"
                /\ out'.handler = "new_firm"
                /\ Dispatched(out')
             \/ /\ status = "Qualified"
                /\ \/ out'.handler = "firm_enriched"
                   \/ out'.handler = "firm_score" /\ ~ScoringAnswerUnusable(out')
       /\ firm'["Research Status"] # firm["Research Status"] =>
             /\ StatusWrites(out') # << >>
             /\ firm'["Research Status"] = StatusWrites(out')[1].args["Research Status"]
       /\ firm'["Research Status"] \in {"New", "Researching", "Qualified"}]_vars

\* A firm that was dispatched and enriched before has been scored: the
\* scoring wrote Qualified over Researching or Qualified.
C23_Witness ==
    /\ ScoringSucceeded(out)
    /\ StatusWrites(out) # << >>
    /\ StatusWrites(out)[1].result = "ok"
    /\ firm["Research Status"] = "Qualified"
    /\ firm["LinkedIn Company URL"] = <<"in/acme">>
    /\ firm["Restart Enrichment"] = FALSE

\* C27: the new-firm handler checks neither the status of the firm nor its
\* restart flag before dispatching.  Every new-firm event with a resolvable
\* domain makes one relay call, whatever the firm was before the event, so a
\* second delivery of an event dispatches again; and when the dispatch and
\* the write succeed the status is Researching afterwards, also for a firm
\* that was Qualified and an event without the restart flag.
C27_DispatchWhateverTheFirmIs ==
    [][ResolvesDomain(out', firm) =>
          /\ Len(CallsTo(out', "relay")) = 1
          /\ (/\ Dispatched(out')
              /\ \E i \in 1..Len(out'.calls) :
                    out'.calls[i].op = "update" /\ out'.calls[i].result = "ok")
             => firm'["Research Status"] = "Researching"]_vars

\* An event without the restart flag was dispatched for a firm that a firm
\* callback had qualified (its overview is written), and the firm is
\* Researching again.
C27_Witness ==
    /\ out.handler = "new_firm"
    /\ ~out.req.payload.checkbox
    /\ Dispatched(out)
    /\ Truthy(firm["Firm Overview"])
    /\ ~firm["Restart Enrichment"]
    /\ firm["Research Status"] = "Researching"

-----------------------------------------------------------------------------
(* Properties of concurrent triggers, checked under SpecRace *)

\* C18: handlers read and write a record without a lock or a version check,
\* so concurrent triggers on one record race with last-write-wins.  The
\* update of an outreach trigger (of a reply event) puts in the place of the
\* notes, whatever the record holds by then, the notes the trigger had
\* retrieved followed by its own entry: when two triggers both retrieved
\* the notes before either wrote, the notes hold only one of the two
\* entries after both updates, and they hold an entry more than the trigger
\* retrieved in no case.
C18_ConcurrentUpdatesLoseAnEntry ==
    [][/\ \A w \in InFlight("outreach") :
             (/\ Ends(w)
              /\ Written(out')
              /\ "Qualification Notes" \in DOMAIN Writes(out')[1].args) =>
                /\ firm'["Qualification Notes"] = Writes(out')[1].args["Qualification Notes"]
                /\ firm'["Qualification Notes"]
                      = Cut(Strip(RetrievedNotes(w) \o <<"\n\n", "[Outreach ">> \o Today
                                  \o <<"] ">> \o ComposedReasoning(out')), NotesLimit)
                /\ OutreachNotes(firm') <= OutreachNotes(w.seen[2]) + 1
       /\ \A w \in InFlight("email_reply") :
             (Ends(w) /\ Written(out')) =>
                /\ entry'["Notes"] = Writes(out')[1].args["Notes"]
                /\ RepliesNoted(entry') = RepliesNoted(w.seen[Len(w.seen)]) + 1]_vars

\* Two outreach triggers both retrieved the notes before either wrote.  The
\* first made a mail draft and wrote its entry and the link of the draft;
\* the second, whose draft failed, has written after it: the firm has the
\* link of the first, and its notes are the entry of the second alone.
C18_Witness ==
    /\ out.handler = "outreach"
    /\ Written(out)
    /\ ~DraftCreated(out)
    /\ out.body.reasoning = <<"<text 150>">>
    /\ firm["Outreach Draft URL"] = DraftUrl
    /\ firm["Qualification Notes"] = <<"[Outreach ", "<date>", "] ", "<text 150>">>
    /\ OutreachNotes(firm) = 1

-----------------------------------------------------------------------------
(* Properties of every handler *)

\* C8 as the specification states it: every invocation of a webhook handler
\* ends by returning a structured outcome, whatever its external calls do
\* and also for an empty request body; none ends with an uncaught exception
\* as its only output.  Checked under Spec.
C8_EveryInvocationReturnsOutcome ==
    out.kind = "json" /\ "calls" \in DOMAIN out

====
